---- MODULE Spec2Model ----
(***************************************************************************)
(* Model of the tibia-boss-api sync job: the Mongo mutex of                *)
(* app/db/system_jobs.py, the run_scraper_job / main_scraper.main          *)
(* orchestrators, and the ImageResolverService batch resolver.             *)
(***************************************************************************)
EXTENDS Integers, Sequences, FiniteSets, TLC

(* ---------------------------------------------------------------------- *)
(* Bounds                                                                  *)
(* ---------------------------------------------------------------------- *)
NumRuns == 2          \* concurrent run_scraper_job invocations
MaxBosses == 2        \* items the category listing may return
MaxClock == 5         \* timestamps handed out in the lock-only harness
MaxFiles == 101       \* distinct filenames in one resolve_images call
MaxDups == 1          \* repeated filenames appended to a long argument
MaxNames == 2         \* names used in the short arguments
MaxLen == 3           \* length of the short arguments

(* ---------------------------------------------------------------------- *)
(* Program constants                                                       *)
(* ---------------------------------------------------------------------- *)
SCRAPER_LOCK_ID == "scraper_lock"
BATCH_SIZE == 50
None == -1
RESOLVER_BATCH_SIZE == 50
PLACEHOLDER_URL == <<"static/placeholder_boss.png", 0>>

Runs == 1..NumRuns
MainProc == 0
Procs == Runs \cup {MainProc}
TestClient == NumRuns + 1

VARIABLES
    system_jobs,   \* the system_jobs collection: a set of documents
    clock,         \* datetime.now(UTC), one tick per stamped operation
    lastOp,        \* the last lock operation: name, caller, collection before, result
    pc,            \* position of each invocation
    acquired,      \* per invocation: what acquire_scraper_lock returned
    acquired_at,   \* per invocation: the locked_at its successful acquire stamped
    effects,       \* per invocation: the collaborators it has called so far
    atReturn,      \* per invocation: lock status observed when it returned
    listed,        \* per invocation: len(bosses_list)
    processed,     \* per invocation: len(processed_bosses)
    batch_i,       \* per invocation: loop index i of the batch loop
    bosses,        \* the bosses collection: set of stored item keys
    img_pc,        \* position of the resolve_images call
    filenames,     \* resolve_images: the argument
    unique_filenames, \* resolve_images: list(dict.fromkeys(filenames))
    chunks,        \* resolve_images: the batches still to be sent, in order
    all_results,   \* resolve_images: filename -> url accumulated so far
    posts,         \* POST requests issued to the upstream API, in order
    req,           \* _request_with_backoff: per request, its loop state and its history
    listing,       \* get_all_bosses: cmcontinue, all_bosses and the page requests made
    wikitext_call, \* get_boss_wikitext: arguments, request issued, outcome
    scope,         \* TibiaWikiClient used as a context manager: _client and its calls
    repo,          \* BossRepository: the bosses collection as documents, last upsert
    slug_call,     \* BossModel._generate_slug: the name and the derived slug
    parse_call,    \* WikitextParser._extract_template_data: template, fallback, name
    item_tasks,    \* process_boss tasks of one run, the semaphore, the dead-letter log
    gate,          \* the semaphore of a run with more items than permits, by counts
    save,          \* the batch loop: process_and_save_batch over processed_bosses
    dead_letter    \* DeadLetterLogger: the log file and the calls made on it

lockVars == <<system_jobs, clock, lastOp>>
jobVars == <<pc, acquired, acquired_at, effects, atReturn, listed, processed, batch_i, bosses>>
imgVars == <<img_pc, filenames, unique_filenames, chunks, all_results, posts>>
compVars == <<req, listing, wikitext_call, scope, repo, slug_call, parse_call, item_tasks,
             gate, save, dead_letter>>
vars == <<lockVars, jobVars, imgVars, compVars>>
\* what the lock and job operations leave alone
notJobVars == <<imgVars, compVars>>
\* what the image resolver leaves alone
notImgVars == <<lockVars, jobVars, compVars>>
\* what each of the remaining components leaves alone
notReqVars == <<lockVars, jobVars, imgVars,
                listing, wikitext_call, scope, repo, slug_call, parse_call, item_tasks,
        gate, save, dead_letter>>
notListingVars == <<lockVars, jobVars, imgVars,
                    req, wikitext_call, scope, repo, slug_call, parse_call, item_tasks,
        gate, save, dead_letter>>
notWikitextVars == <<lockVars, jobVars, imgVars,
                     req, listing, scope, repo, slug_call, parse_call, item_tasks,
        gate, save, dead_letter>>
notScopeVars == <<lockVars, jobVars, imgVars,
                  req, listing, wikitext_call, repo, slug_call, parse_call, item_tasks,
        gate, save, dead_letter>>
notRepoVars == <<lockVars, jobVars, imgVars,
                 req, listing, wikitext_call, scope, slug_call, parse_call, item_tasks,
        gate, save, dead_letter>>
notSlugVars == <<lockVars, jobVars, imgVars,
                 req, listing, wikitext_call, scope, repo, parse_call, item_tasks,
        gate, save, dead_letter>>
notParseVars == <<lockVars, jobVars, imgVars,
                  req, listing, wikitext_call, scope, repo, slug_call, item_tasks,
        gate, save, dead_letter>>
notItemsVars == <<lockVars, jobVars, imgVars,
                  req, listing, wikitext_call, scope, repo, slug_call, parse_call,
        gate, save, dead_letter>>

\* a component that is not exercised by the specification at hand
Idle == [pc |-> "idle"]

(* ---------------------------------------------------------------------- *)
(* system_jobs collection: Mongo primitives as used by the repository      *)
(* ---------------------------------------------------------------------- *)
LockDocs(coll) == {d \in coll : d._id = SCRAPER_LOCK_ID}

LockStatus(coll) ==
    IF LockDocs(coll) = {} THEN "absent"
    ELSE (CHOOSE d \in LockDocs(coll) : TRUE).status

\* variant: the upsert uses $set, so an existing document is reset
EnsureUpdateSet(coll) ==
    (coll \ LockDocs(coll)) \cup {[_id |-> SCRAPER_LOCK_ID, status |-> "idle",
                                    last_run |-> None, locked_at |-> None]}

\* update_one({_id}, {$setOnInsert: {...}}, upsert=True)
EnsureUpdate(coll) ==
    IF LockDocs(coll) # {} THEN coll
    ELSE coll \cup {[_id |-> SCRAPER_LOCK_ID, status |-> "idle",
                     last_run |-> None, locked_at |-> None]}

\* variant: the filter carries no status condition
AcquireFilterNoCas(coll) == {d \in coll : d._id = SCRAPER_LOCK_ID}

\* filter of find_one_and_update: {_id: scraper_lock, status: "idle"}
AcquireFilter(coll) == {d \in coll : d._id = SCRAPER_LOCK_ID /\ d.status = "idle"}

\* variant: the $set is applied to the lock document whatever its status
AcquireUpdateAny(coll, now) ==
    {IF d._id = SCRAPER_LOCK_ID
       THEN [d EXCEPT !.status = "running", !.locked_at = now]
       ELSE d : d \in coll}

\* find_one_and_update(filter, {$set: {status: running, locked_at: now}})
AcquireUpdate(coll, now) ==
    {IF d \in AcquireFilter(coll)
       THEN [d EXCEPT !.status = "running", !.locked_at = now]
       ELSE d : d \in coll}

\* variant: the release does not clear locked_at
ReleaseUpdateKeepLockedAt(coll, now) ==
    {IF d._id = SCRAPER_LOCK_ID
       THEN [d EXCEPT !.status = "idle", !.last_run = now]
       ELSE d : d \in coll}

\* variant: the release is an upsert, creating the document when it is absent
ReleaseUpdateUpsert(coll, now) ==
    IF \E d \in coll : d._id = SCRAPER_LOCK_ID
      THEN {IF d._id = SCRAPER_LOCK_ID
              THEN [d EXCEPT !.status = "idle", !.last_run = now, !.locked_at = None]
              ELSE d : d \in coll}
      ELSE coll \cup {[_id |-> SCRAPER_LOCK_ID, status |-> "idle",
                       last_run |-> now, locked_at |-> None]}

\* variant: the release is conditioned on the status being running
ReleaseUpdateIfRunning(coll, now) ==
    {IF d._id = SCRAPER_LOCK_ID /\ d.status = "running"
       THEN [d EXCEPT !.status = "idle", !.last_run = now, !.locked_at = None]
       ELSE d : d \in coll}

\* update_one({_id}, {$set: {status: idle, last_run: now, locked_at: None}})
ReleaseUpdate(coll, now) ==
    {IF d._id = SCRAPER_LOCK_ID
       THEN [d EXCEPT !.status = "idle", !.last_run = now, !.locked_at = None]
       ELSE d : d \in coll}

\* the last acquire/release seen before this operation (ensure is transparent)
PrevMut == IF lastOp.op \in {"acquire", "release"} THEN lastOp.op ELSE lastOp.prev

ensure_scraper_lock_document(p) ==
    /\ system_jobs' = EnsureUpdate(system_jobs)
    /\ lastOp' = [op |-> "ensure", by |-> p, before |-> system_jobs,
                  ret |-> TRUE, now |-> None, prev |-> PrevMut]
    /\ UNCHANGED clock

acquire_scraper_lock(p) ==
    /\ system_jobs' = AcquireUpdate(system_jobs, clock)
    /\ lastOp' = [op |-> "acquire", by |-> p, before |-> system_jobs,
                  ret |-> (AcquireFilter(system_jobs) # {}), now |-> clock,
                  prev |-> PrevMut]
    /\ clock' = clock + 1

release_scraper_lock(p) ==
    /\ system_jobs' = ReleaseUpdate(system_jobs, clock)
    /\ lastOp' = [op |-> "release", by |-> p, before |-> system_jobs,
                  ret |-> (LockDocs(system_jobs) # {}), now |-> clock,
                  prev |-> PrevMut]
    /\ clock' = clock + 1

(* ---------------------------------------------------------------------- *)
(* run_scraper_job                                                         *)
(* ---------------------------------------------------------------------- *)
RunningPcs == {"open", "list", "process", "batch", "except", "release"}
PipelinePcs == {"open", "list", "process", "batch"}

Did(p, what) == effects' = [effects EXCEPT ![p] = @ \cup {what}]

\* variant: no except clause, the exception leaves the function
RaiseTargetPropagate(p) == "raised"

\* where an exception raised inside the pipeline lands
RaiseTarget(p) == IF p \in Runs THEN "except" ELSE "raised"
\* where the pipeline continues after its last batch
AfterPipeline(p) == IF p \in Runs THEN "release" ELSE "closedb"

RunEnsure(p) ==
    /\ p \in Runs /\ pc[p] = "start"
    /\ ensure_scraper_lock_document(p)
    /\ pc' = [pc EXCEPT ![p] = "acquire"]
    /\ Did(p, "ensure")
    /\ UNCHANGED <<acquired, acquired_at, atReturn, listed, processed, batch_i, bosses>>
    /\ UNCHANGED notJobVars

\* variant: the acquire check sits inside the try, so a skip runs the finally
RunAcquireSkipReleases(p) ==
    /\ p \in Runs /\ pc[p] = "acquire"
    /\ acquire_scraper_lock(p)
    /\ acquired' = [acquired EXCEPT ![p] = lastOp'.ret]
    /\ acquired_at' = [acquired_at EXCEPT ![p] = IF lastOp'.ret THEN lastOp'.now ELSE @]
    /\ Did(p, "acquire")
    /\ pc' = [pc EXCEPT ![p] = IF lastOp'.ret THEN "open" ELSE "release"]
    /\ UNCHANGED <<atReturn, listed, processed, batch_i, bosses>>
    /\ UNCHANGED notJobVars

\* variant: the result of acquire is not tested
RunAcquireIgnoreResult(p) ==
    /\ p \in Runs /\ pc[p] = "acquire"
    /\ acquire_scraper_lock(p)
    /\ acquired' = [acquired EXCEPT ![p] = lastOp'.ret]
    /\ acquired_at' = [acquired_at EXCEPT ![p] = IF lastOp'.ret THEN lastOp'.now ELSE @]
    /\ Did(p, "acquire")
    /\ pc' = [pc EXCEPT ![p] = "open"]
    /\ UNCHANGED <<atReturn, listed, processed, batch_i, bosses>>
    /\ UNCHANGED notJobVars

RunAcquire(p) ==
    /\ p \in Runs /\ pc[p] = "acquire"
    /\ acquire_scraper_lock(p)
    /\ acquired' = [acquired EXCEPT ![p] = lastOp'.ret]
    /\ acquired_at' = [acquired_at EXCEPT ![p] = IF lastOp'.ret THEN lastOp'.now ELSE @]
    /\ Did(p, "acquire")
    /\ IF lastOp'.ret
         THEN /\ pc' = [pc EXCEPT ![p] = "open"]
              /\ UNCHANGED atReturn
         ELSE /\ pc' = [pc EXCEPT ![p] = "skipped"]
              /\ atReturn' = [atReturn EXCEPT ![p] = LockStatus(system_jobs')]
    /\ UNCHANGED <<listed, processed, batch_i, bosses>>
    /\ UNCHANGED notJobVars

\* async with TibiaWikiClient() as client, ImageResolverService() as image_resolver
OpenClients(p) ==
    /\ pc[p] = "open"
    /\ \E ok \in BOOLEAN :
         pc' = [pc EXCEPT ![p] = IF ok THEN "list" ELSE RaiseTarget(p)]
    /\ UNCHANGED <<lockVars, acquired, acquired_at, effects, atReturn, listed, processed, batch_i, bosses>>
    /\ UNCHANGED notJobVars

\* the call made, and that it raised
ListFailed(p) == effects' = [effects EXCEPT ![p] = @ \cup {"list", "list_failed"}]

\* variant: a failing page ends the pagination and the pages read so far are used
ListBossesPartial(p) ==
    /\ pc[p] = "list"
    /\ \/ \E n \in 0..MaxBosses :
            /\ listed' = [listed EXCEPT ![p] = n]
            /\ pc' = [pc EXCEPT ![p] = "process"]
            /\ Did(p, "list")
       \/ \E n \in 0..MaxBosses :
            /\ listed' = [listed EXCEPT ![p] = n]
            /\ pc' = [pc EXCEPT ![p] = "process"]
            /\ ListFailed(p)
    /\ UNCHANGED <<lockVars, acquired, acquired_at, atReturn, processed, batch_i, bosses>>
    /\ UNCHANGED notJobVars

\* bosses_list = await client.get_all_bosses(): the list, or the exception of
\* the page request that failed
ListBosses(p) ==
    /\ pc[p] = "list"
    /\ \/ \E n \in 0..MaxBosses :
            /\ listed' = [listed EXCEPT ![p] = n]
            /\ pc' = [pc EXCEPT ![p] = "process"]
            /\ Did(p, "list")
       \/ /\ pc' = [pc EXCEPT ![p] = RaiseTarget(p)]
          /\ UNCHANGED listed
          /\ ListFailed(p)
    /\ UNCHANGED <<lockVars, acquired, acquired_at, atReturn, processed, batch_i, bosses>>
    /\ UNCHANGED notJobVars

\* results = await asyncio.gather(*tasks, return_exceptions=True), then the filter loop
ProcessBosses(p) ==
    /\ pc[p] = "process"
    /\ effects' = [effects EXCEPT ![p] = IF listed[p] > 0 THEN @ \cup {"fetch"} ELSE @]
    /\ \E k \in 0..listed[p] :
         processed' = [processed EXCEPT ![p] = k]
    /\ batch_i' = [batch_i EXCEPT ![p] = 0]
    /\ pc' = [pc EXCEPT ![p] = "batch"]
    /\ UNCHANGED <<lockVars, acquired, acquired_at, atReturn, listed, bosses>>
    /\ UNCHANGED notJobVars

\* one iteration of: for i in range(0, len(processed_bosses), BATCH_SIZE)
BatchStep(p) ==
    /\ pc[p] = "batch"
    /\ IF batch_i[p] < processed[p]
         THEN \/ \E withImages \in BOOLEAN, saved \in SUBSET ((batch_i[p] + 1)..processed[p]) :
                   /\ effects' = [effects EXCEPT ![p] =
                          @ \cup (IF withImages THEN {"resolve"} ELSE {}) \cup {"upsert"}]
                   /\ bosses' = bosses \cup
                          {s \in saved : s <= batch_i[p] + BATCH_SIZE}
                   /\ batch_i' = [batch_i EXCEPT ![p] = @ + BATCH_SIZE]
                   /\ UNCHANGED pc
              \/ /\ pc' = [pc EXCEPT ![p] = RaiseTarget(p)]
                 /\ UNCHANGED <<effects, bosses, batch_i>>
         ELSE /\ pc' = [pc EXCEPT ![p] = AfterPipeline(p)]
              /\ UNCHANGED <<effects, bosses, batch_i>>
    /\ UNCHANGED <<lockVars, acquired, acquired_at, atReturn, listed, processed>>
    /\ UNCHANGED notJobVars

\* variant: the release is the last statement of the try body, not a finally
RunExceptNoFinally(p) ==
    /\ p \in Runs /\ pc[p] = "except"
    /\ pc' = [pc EXCEPT ![p] = "done"]
    /\ Did(p, "except")
    /\ atReturn' = [atReturn EXCEPT ![p] = LockStatus(system_jobs)]
    /\ UNCHANGED <<lockVars, acquired, acquired_at, listed, processed, batch_i, bosses>>
    /\ UNCHANGED notJobVars

\* except Exception as exc: logger.exception(...)
RunExcept(p) ==
    /\ p \in Runs /\ pc[p] = "except"
    /\ pc' = [pc EXCEPT ![p] = "release"]
    /\ Did(p, "except")
    /\ UNCHANGED <<lockVars, acquired, acquired_at, atReturn, listed, processed, batch_i, bosses>>
    /\ UNCHANGED notJobVars

\* finally: await system_jobs_repo.release_scraper_lock(), then return
RunRelease(p) ==
    /\ p \in Runs /\ pc[p] = "release"
    /\ release_scraper_lock(p)
    /\ Did(p, "release")
    /\ pc' = [pc EXCEPT ![p] = "done"]
    /\ atReturn' = [atReturn EXCEPT ![p] = LockStatus(system_jobs')]
    /\ UNCHANGED <<acquired, acquired_at, listed, processed, batch_i, bosses>>
    /\ UNCHANGED notJobVars

(* ---------------------------------------------------------------------- *)
(* main_scraper.main: the same pipeline, started from the command line     *)
(* ---------------------------------------------------------------------- *)
MainStart ==
    /\ pc[MainProc] = "start"
    /\ pc' = [pc EXCEPT ![MainProc] = "open"]
    /\ UNCHANGED <<lockVars, acquired, acquired_at, effects, atReturn, listed, processed, batch_i, bosses>>
    /\ UNCHANGED notJobVars

MainClose ==
    /\ pc[MainProc] = "closedb"
    /\ pc' = [pc EXCEPT ![MainProc] = "done"]
    /\ atReturn' = [atReturn EXCEPT ![MainProc] = LockStatus(system_jobs)]
    /\ UNCHANGED <<lockVars, acquired, acquired_at, effects, listed, processed, batch_i, bosses>>
    /\ UNCHANGED notJobVars

(* ---------------------------------------------------------------------- *)
(* Specification of the job                                                *)
(* ---------------------------------------------------------------------- *)
NoOp == [op |-> "none", by |-> MainProc, before |-> {}, ret |-> FALSE,
         now |-> None, prev |-> "none"]

InitJob ==
    /\ system_jobs = {}
    /\ clock = 0
    /\ lastOp = NoOp
    /\ pc = [p \in Procs |-> "start"]
    /\ acquired = [p \in Procs |-> FALSE]
    /\ acquired_at = [p \in Procs |-> None]
    /\ effects = [p \in Procs |-> {}]
    /\ atReturn = [p \in Procs |-> "none"]
    /\ listed = [p \in Procs |-> 0]
    /\ processed = [p \in Procs |-> 0]
    /\ batch_i = [p \in Procs |-> 0]
    /\ bosses = {}

\* no resolve_images call in progress
InitImgIdle ==
    /\ img_pc = "idle"
    /\ filenames = <<>>
    /\ unique_filenames = <<>>
    /\ chunks = <<>>
    /\ all_results = <<>>
    /\ posts = <<>>

InitCompIdle ==
    /\ req = Idle
    /\ listing = Idle
    /\ wikitext_call = Idle
    /\ scope = Idle
    /\ repo = Idle
    /\ slug_call = Idle
    /\ parse_call = Idle
    /\ item_tasks = Idle
    /\ gate = Idle
    /\ save = Idle
    /\ dead_letter = Idle

Init == InitJob /\ InitImgIdle /\ InitCompIdle

Next ==
    \/ \E p \in Runs : RunEnsure(p)
    \/ \E p \in Runs : RunAcquire(p)
    \/ \E p \in Procs : OpenClients(p)
    \/ \E p \in Procs : ListBosses(p)
    \/ \E p \in Procs : ProcessBosses(p)
    \/ \E p \in Procs : BatchStep(p)
    \/ \E p \in Runs : RunExcept(p)
    \/ \E p \in Runs : RunRelease(p)
    \/ MainStart
    \/ MainClose

Spec == Init /\ [][Next]_vars

(* ---------------------------------------------------------------------- *)
(* Lock-only harness: the repository methods called in any order           *)
(* (tests/test_system_jobs_lock.py drives them directly)                   *)
(* ---------------------------------------------------------------------- *)
ClientEnsure ==
    /\ ensure_scraper_lock_document(TestClient)
    /\ UNCHANGED jobVars
    /\ UNCHANGED notJobVars

ClientAcquire ==
    /\ clock < MaxClock
    /\ acquire_scraper_lock(TestClient)
    /\ UNCHANGED jobVars
    /\ UNCHANGED notJobVars

ClientRelease ==
    /\ clock < MaxClock
    /\ release_scraper_lock(TestClient)
    /\ UNCHANGED jobVars
    /\ UNCHANGED notJobVars

NextLock == ClientEnsure \/ ClientAcquire \/ ClientRelease

SpecLock == Init /\ [][NextLock]_vars

(* ---------------------------------------------------------------------- *)
(* ImageResolverService                                                    *)
(* ---------------------------------------------------------------------- *)
Range(s) == {s[i] : i \in DOMAIN s}
Min(a, b) == IF a <= b THEN a ELSE b
Iota(n) == [i \in 1..n |-> i]

\* a URL the upstream API reports for a page title; an imageinfo entry
\* without a "url" key carries NoUrl
UrlOf(title) == <<"https://static.wikia.nocookie.net/tibia/images", title>>
NoUrl == <<"", 0>>
\* the title a redirected filename is sent to
RedirectOf(f) == f + 1000

\* list(dict.fromkeys(filenames))
Dedup(s) ==
    LET firsts == {i \in 1..Len(s) : \A j \in 1..(i - 1) : s[j] # s[i]}
    IN [k \in 1..Cardinality(firsts) |->
          s[CHOOSE i \in firsts : Cardinality({j \in firsts : j < i}) = k - 1]]

\* [items[i : i + chunk_size] for i in range(0, len(items), chunk_size)]
chunk_list(items, chunk_size) ==
    LET starts == {i \in 0..(Len(items) - 1) : i % chunk_size = 0}
    IN [k \in 1..Cardinality(starts) |->
          SubSeq(items, (k - 1) * chunk_size + 1,
                 Min((k - 1) * chunk_size + chunk_size, Len(items)))]

\* all_results.update(batch_results)
DictUpdate(a, b) ==
    [f \in DOMAIN a \cup DOMAIN b |-> IF f \in DOMAIN b THEN b[f] ELSE a[f]]

\* the answers of the upstream API to one POST for the titles of chunk
OkKinds == {"found", "missing", "nourl", "redirect", "omitted", "mixed"}
FailKinds == {"http_error", "network_error", "malformed"}

PagesOf(kind, names) ==
    CASE kind = "found" ->
           {[title |-> f, imageinfo |-> <<UrlOf(f)>>] : f \in names}
      [] kind = "missing" ->
           {[title |-> f, imageinfo |-> <<>>] : f \in names}
      [] kind = "nourl" ->
           {[title |-> f, imageinfo |-> <<NoUrl>>] : f \in names}
      [] kind = "redirect" ->
           {[title |-> RedirectOf(f), imageinfo |-> <<UrlOf(RedirectOf(f))>>] : f \in names}
      [] kind = "mixed" ->
           {[title |-> f, imageinfo |-> IF f % 2 = 1 THEN <<UrlOf(f)>> ELSE <<>>]
               : f \in names}
           \cup {[title |-> RedirectOf(f),
                  imageinfo |-> IF f % 4 = 0 THEN <<UrlOf(RedirectOf(f))>> ELSE <<>>]
                   : f \in {g \in names : g % 2 = 0}}
      [] OTHER -> {}

RedirectsOf(kind, names) ==
    CASE kind = "redirect" -> {[from |-> f, to |-> RedirectOf(f)] : f \in names}
      [] kind = "mixed" ->
           {[from |-> f, to |-> RedirectOf(f)] : f \in {g \in names : g % 2 = 0}}
      [] OTHER -> {}

UpstreamReplies(chunk) ==
    {[titles |-> chunk, outcome |-> "ok", kind |-> k,
      pages |-> PagesOf(k, Range(chunk)),
      redirects |-> RedirectsOf(k, Range(chunk))] : k \in OkKinds}
    \cup
    {[titles |-> chunk, outcome |-> k, kind |-> k, pages |-> {}, redirects |-> {}]
        : k \in FailKinds}

\* variant: the redirects of the reply are ignored
TargetTitleNoRedirect(f, reply) == f

\* redirect_map.get(original_filename, original_filename)
TargetTitle(f, reply) ==
    IF \E r \in reply.redirects : r.from = f
      THEN (CHOOSE r \in reply.redirects : r.from = f).to
      ELSE f

\* url_map: title -> url for pages with a first imageinfo entry holding a url
UrlPages(reply) ==
    {pg \in reply.pages : Len(pg.imageinfo) > 0 /\ pg.imageinfo[1] # NoUrl}

\* variant: a filename without a page is left with no url instead of the placeholder
ResolvedUrlNoPlaceholder(f, reply) ==
    IF \E pg \in UrlPages(reply) : pg.title = TargetTitle(f, reply)
      THEN (CHOOSE pg \in UrlPages(reply) : pg.title = TargetTitle(f, reply)).imageinfo[1]
      ELSE NoUrl

\* url = url_map.get(target_title); result[...] = url if url else PLACEHOLDER_URL
ResolvedUrl(f, reply) ==
    IF \E pg \in UrlPages(reply) : pg.title = TargetTitle(f, reply)
      THEN (CHOOSE pg \in UrlPages(reply) : pg.title = TargetTitle(f, reply)).imageinfo[1]
      ELSE PLACEHOLDER_URL

\* _resolve_batch: the parsed answer, or the placeholder for the whole batch
\* when the POST, raise_for_status or the parsing raised
resolve_batch(chunk, reply) ==
    IF reply.outcome = "ok"
      THEN [f \in Range(chunk) |-> ResolvedUrl(f, reply)]
      ELSE [f \in Range(chunk) |-> PLACEHOLDER_URL]

\* if not filenames: return {}; dedup; chunk
ResolveStart ==
    /\ img_pc = "call"
    /\ IF filenames = <<>>
         THEN /\ img_pc' = "done"
              /\ UNCHANGED <<unique_filenames, chunks>>
         ELSE /\ img_pc' = "loop"
              /\ unique_filenames' = Dedup(filenames)
              /\ chunks' = chunk_list(Dedup(filenames), RESOLVER_BATCH_SIZE)
    /\ all_results' = <<>>
    /\ UNCHANGED <<filenames, posts>>
    /\ UNCHANGED notImgVars

\* variant: a failed batch ends the loop
ResolveBatchAbortOnError ==
    /\ img_pc = "loop" /\ chunks # <<>>
    /\ \E reply \in UpstreamReplies(Head(chunks)) :
         /\ posts' = Append(posts, reply)
         /\ all_results' = DictUpdate(all_results, resolve_batch(Head(chunks), reply))
         /\ chunks' = IF reply.outcome = "ok" THEN Tail(chunks) ELSE <<>>
    /\ UNCHANGED <<img_pc, filenames, unique_filenames>>
    /\ UNCHANGED notImgVars

\* one iteration of: for i, chunk in enumerate(chunks, 1)
ResolveBatch ==
    /\ img_pc = "loop" /\ chunks # <<>>
    /\ \E reply \in UpstreamReplies(Head(chunks)) :
         /\ posts' = Append(posts, reply)
         /\ all_results' = DictUpdate(all_results, resolve_batch(Head(chunks), reply))
    /\ chunks' = Tail(chunks)
    /\ UNCHANGED <<img_pc, filenames, unique_filenames>>
    /\ UNCHANGED notImgVars

\* the closing loop over unique_filenames, then return all_results
ResolveFinish ==
    /\ img_pc = "loop" /\ chunks = <<>>
    /\ all_results' = [f \in DOMAIN all_results \cup Range(unique_filenames) |->
                          IF f \in DOMAIN all_results THEN all_results[f]
                          ELSE PLACEHOLDER_URL]
    /\ img_pc' = "done"
    /\ UNCHANGED <<filenames, unique_filenames, chunks, posts>>
    /\ UNCHANGED notImgVars

ShortInputs == UNION {[1..k -> 1..MaxNames] : k \in 0..MaxLen}
LongInputs ==
    UNION {{Iota(n) \o Iota(d) : d \in 0..Min(n, MaxDups)} : n \in 0..MaxFiles}
ImgInputs == ShortInputs \cup LongInputs

InitImg ==
    /\ InitJob
    /\ InitCompIdle
    /\ img_pc = "call"
    /\ filenames \in ImgInputs
    /\ unique_filenames = <<>>
    /\ chunks = <<>>
    /\ all_results = <<>>
    /\ posts = <<>>

NextImg == ResolveStart \/ ResolveBatch \/ ResolveFinish

SpecImg == InitImg /\ [][NextImg]_vars

(* ---------------------------------------------------------------------- *)
(* Properties of the lock and of the job                                   *)
(* ---------------------------------------------------------------------- *)
LockOps == {"ensure", "acquire", "release"}
PipelineCalls == {"list", "fetch", "resolve", "upsert"}

\* C1: at most one run_scraper_job invocation is between its successful
\* acquire and its release at any time, whatever the interleaving.
C1_MutualExclusion ==
    Cardinality({p \in Runs : pc[p] \in RunningPcs}) <= 1

C1_Witness ==
    \E p, q \in Runs :
        /\ pc[p] \in PipelinePcs /\ "list" \in effects[p]
        /\ pc[q] = "skipped"

\* C2: every invocation whose acquire returned true has released the lock
\* when it returns (status idle at its return), on the success path and on
\* the exception path alike; it never ends anywhere but in "done".
C2_GuaranteedRelease ==
    \A p \in Runs :
        acquired[p] =>
            /\ pc[p] \in RunningPcs \cup {"done"}
            /\ pc[p] = "done" => ("release" \in effects[p] /\ atReturn[p] = "idle")

C2_Witness ==
    \E p, q \in Runs :
        /\ pc[p] = "done" /\ acquired[p] /\ "except" \in effects[p]
        /\ pc[q] = "done" /\ acquired[q] /\ "except" \notin effects[q]
        /\ "upsert" \in effects[q]
        /\ atReturn[p] = "idle" /\ atReturn[q] = "idle"

\* C3: acquire returns true exactly when the lock document's status is idle;
\* then the status becomes running and locked_at is the acquire's timestamp
\* (last_run kept); on a running document it returns false and changes
\* nothing; the second of two acquires with no release between is false.
C3_AcquireIsCompareAndSet ==
    lastOp.op = "acquire" =>
        /\ lastOp.ret = (LockStatus(lastOp.before) = "idle")
        /\ lastOp.ret =>
              system_jobs = {[d EXCEPT !.status = "running", !.locked_at = lastOp.now]
                               : d \in lastOp.before}
        /\ LockStatus(lastOp.before) = "running" =>
              (~lastOp.ret /\ system_jobs = lastOp.before)
        /\ lastOp.prev = "acquire" => ~lastOp.ret

C3_Witness ==
    /\ lastOp.op = "acquire" /\ lastOp.prev = "acquire" /\ ~lastOp.ret
    /\ LockStatus(system_jobs) = "running"
    /\ \E p \in Runs : acquired[p] /\ pc[p] \in RunningPcs

\* C4: a release on the lock document sets status idle, clears locked_at and
\* stamps last_run with the release time whatever the status was; the next
\* acquire on the document, with no acquire in between, returns true.
C4_ReleaseUnconditional ==
    /\ (lastOp.op = "release" /\ LockDocs(lastOp.before) # {}) =>
          system_jobs = {[d EXCEPT !.status = "idle", !.locked_at = None,
                                   !.last_run = lastOp.now] : d \in lastOp.before}
    /\ (lastOp.op = "acquire" /\ lastOp.prev = "release"
            /\ LockDocs(lastOp.before) # {}) => lastOp.ret

C4_Witness ==
    /\ lastOp.op = "acquire" /\ lastOp.prev = "release" /\ lastOp.ret
    /\ \E d \in LockDocs(system_jobs) : d.last_run >= 2 /\ d.locked_at > d.last_run

\* C5: ensure creates the idle document (locked_at, last_run empty) when it is
\* absent and changes nothing when it exists, idle or running.
C5_EnsureIdempotent ==
    lastOp.op = "ensure" =>
        IF LockDocs(lastOp.before) = {}
          THEN system_jobs = lastOp.before \cup
                   {[_id |-> SCRAPER_LOCK_ID, status |-> "idle",
                     last_run |-> None, locked_at |-> None]}
          ELSE system_jobs = lastOp.before

C5_Witness ==
    /\ lastOp.op = "ensure"
    /\ LockStatus(lastOp.before) = "running"
    /\ LockStatus(system_jobs) = "running"
    /\ \E p \in Runs : p # lastOp.by /\ acquired[p] /\ pc[p] \in RunningPcs

\* C6: an invocation whose acquire returned false ends as skipped, having
\* called only ensure and acquire: no listing, fetch, image resolution,
\* upsert or release; the lock it met is still running when it returns.
C6_SkipOutcome ==
    \A p \in Runs :
        (~acquired[p] /\ "acquire" \in effects[p]) =>
            /\ pc[p] = "skipped"
            /\ effects[p] = {"ensure", "acquire"}
            /\ atReturn[p] = "running"

C6_Witness ==
    \E p, q \in Runs :
        /\ pc[p] = "skipped" /\ ~acquired[p]
        /\ pc[q] = "done" /\ acquired[q] /\ "upsert" \in effects[q]

\* C7: an exception raised in the Running phase never leaves run_scraper_job:
\* it is caught, the lock is released and the invocation ends normally.
C7_ExceptionContainment ==
    \A p \in Runs :
        /\ pc[p] # "raised"
        /\ "except" \in effects[p] =>
              /\ pc[p] \in {"release", "done"}
              /\ pc[p] = "done" => "release" \in effects[p]

C7_Witness ==
    \E p \in Runs :
        /\ pc[p] = "done" /\ "except" \in effects[p] /\ "release" \in effects[p]
        /\ "fetch" \in effects[p] /\ "upsert" \notin effects[p]

\* C8 (as stated): every entry point, main_scraper.main included, runs its
\* pipeline only while the lock is running through its own acquire.
C8_EveryEntryPointGuarded ==
    \A p \in Procs :
        (pc[p] \in PipelinePcs \/ effects[p] \cap PipelineCalls # {}) =>
            /\ acquired[p]
            /\ pc[p] \in PipelinePcs =>
                  \E d \in LockDocs(system_jobs) :
                      d.status = "running" /\ d.locked_at = acquired_at[p]

\* C8 (amended): run_scraper_job runs its pipeline only while the lock is
\* running through its own acquire; main_scraper.main runs the same pipeline
\* without calling ensure, acquire or release.
C8_RunGuardedMainUnguarded ==
    /\ \A p \in Runs :
          (pc[p] \in PipelinePcs \/ effects[p] \cap PipelineCalls # {}) =>
              /\ acquired[p]
              /\ pc[p] \in PipelinePcs =>
                    \E d \in LockDocs(system_jobs) :
                        d.status = "running" /\ d.locked_at = acquired_at[p]
    /\ effects[MainProc] \cap LockOps = {}
    /\ ~acquired[MainProc]

C8_Witness ==
    /\ \E p \in Runs : pc[p] = "batch" /\ "upsert" \in effects[p]
    /\ pc[MainProc] = "batch" /\ "upsert" \in effects[MainProc]

(* ---------------------------------------------------------------------- *)
(* Properties of the image resolver                                        *)
(* ---------------------------------------------------------------------- *)
\* the POST whose titles carried filename f
PostOf(f) == posts[CHOOSE k \in 1..Len(posts) : f \in Range(posts[k].titles)]

\* the reply reports a url for f itself or for the title f is redirected to
Reported(f, reply, url) ==
    /\ reply.outcome = "ok"
    /\ \E pg \in reply.pages :
          /\ pg.title = f \/ [from |-> f, to |-> pg.title] \in reply.redirects
          /\ Len(pg.imageinfo) > 0 /\ pg.imageinfo[1] = url /\ url # NoUrl

\* the page the reply holds for the title f resolves to carries no url
Unresolved(f, reply) ==
    \/ reply.outcome # "ok"
    \/ \A pg \in reply.pages :
          pg.title = TargetTitle(f, reply) =>
              (pg.imageinfo = <<>> \/ pg.imageinfo[1] = NoUrl)

\* C9: resolve_images returns a mapping whose keys are exactly the distinct
\* input filenames; each value is the url reported for the filename (or its
\* redirect target) or the placeholder, and the placeholder whenever the
\* resolution failed; an empty input gives an empty mapping and no POST.
C9_ResolveTotal ==
    img_pc = "done" =>
        /\ DOMAIN all_results = Range(filenames)
        /\ \A f \in DOMAIN all_results :
              /\ \/ all_results[f] = PLACEHOLDER_URL
                 \/ Reported(f, PostOf(f), all_results[f])
              /\ Unresolved(f, PostOf(f)) => all_results[f] = PLACEHOLDER_URL
        /\ filenames = <<>> => (all_results = <<>> /\ posts = <<>>)

C9_Witness ==
    /\ img_pc = "done"
    /\ Len(posts) = 2
    /\ posts[1].outcome = "network_error" /\ posts[2].kind = "mixed"
    /\ \E f, g, h \in DOMAIN all_results :
          /\ all_results[f] = PLACEHOLDER_URL /\ f \in Range(posts[1].titles)
          /\ all_results[g] = UrlOf(RedirectOf(g))
          /\ all_results[h] = PLACEHOLDER_URL /\ h \in Range(posts[2].titles)

FirstIndex(s, x) == CHOOSE i \in 1..Len(s) : s[i] = x /\ \A j \in 1..(i - 1) : s[j] # x

RECURSIVE Concat(_)
Concat(ss) == IF ss = <<>> THEN <<>> ELSE Head(ss) \o Concat(Tail(ss))

\* C10: duplicates are dropped keeping first-occurrence order; the n distinct
\* filenames go out in consecutive batches of at most 50, one POST each,
\* ceil(n/50) POSTs in all; a failed batch gives the placeholder to its own
\* filenames and every other batch resolves exactly as its own reply says.
C10_BatchingAndIsolation ==
    (img_pc \in {"loop", "done"} /\ filenames # <<>>) =>
        LET n == Cardinality(Range(filenames)) IN
        /\ posts = <<>> =>
              /\ Len(unique_filenames) = n
              /\ Range(unique_filenames) = Range(filenames)
              /\ \A i \in 1..n : \A j \in (i + 1)..n :
                    FirstIndex(filenames, unique_filenames[i])
                        < FirstIndex(filenames, unique_filenames[j])
        /\ Concat([k \in 1..Len(posts) |-> posts[k].titles]) \o Concat(chunks)
              = unique_filenames
        /\ \A k \in 1..Len(posts) :
              /\ Len(posts[k].titles) <= 50
              /\ Len(posts[k].titles) > 0
              /\ k < Len(posts) + Len(chunks) => Len(posts[k].titles) = 50
        /\ Len(posts) + Len(chunks) = (n + 49) \div 50
        /\ img_pc = "done" =>
              /\ Len(posts) = (n + 49) \div 50
              /\ \A k \in 1..Len(posts) : \A f \in Range(posts[k].titles) :
                    IF posts[k].outcome # "ok"
                      THEN all_results[f] = PLACEHOLDER_URL
                      ELSE \/ Reported(f, posts[k], all_results[f])
                           \/ /\ Unresolved(f, posts[k])
                              /\ all_results[f] = PLACEHOLDER_URL

C10_Witness ==
    /\ img_pc = "done"
    /\ Len(filenames) = 56 /\ Len(unique_filenames) = 55
    /\ Len(posts) = 2
    /\ Len(posts[1].titles) = 50 /\ Len(posts[2].titles) = 5
    /\ posts[1].outcome = "http_error" /\ posts[2].kind = "found"
    /\ \A f \in 1..50 : all_results[f] = PLACEHOLDER_URL
    /\ \A f \in 51..55 : all_results[f] = UrlOf(f)

(* ---------------------------------------------------------------------- *)
(* TibiaWikiClient._request_with_backoff                                   *)
(* ---------------------------------------------------------------------- *)
NumRequests == 2      \* requests routed through the wrapper on one client

MAX_RETRIES == 3
INITIAL_BACKOFF == 1

Requests == 1..NumRequests

\* what one self._client.request(...) can come back with
Response(status) == [kind |-> "response", status |-> status]
NetworkError == [kind |-> "network_error", status |-> 0]
Replies == {Response(200), Response(429), Response(404), Response(500), NetworkError}

\* raise_for_status() lets the response through
IsSuccess(reply) == reply.kind = "response" /\ reply.status = 200

\* variant: every HTTP error status is retried
IsRateLimitedAnyStatus(reply) == reply.kind = "response" /\ reply.status # 200

\* except httpx.HTTPStatusError as e: if e.response.status_code == 429
IsRateLimited(reply) == reply.kind = "response" /\ reply.status = 429

\* variant: the delay is doubled before the first sleep
WaitTimeDoubled(backoff, attempt) == backoff * 2

\* wait_time = backoff * (2**attempt)
WaitTime(backoff, attempt) == backoff * (2 ^ attempt)

RequestEvent(reply) == [ev |-> "request", reply |-> reply, wait |-> 0]
SleepEvent(wait) == [ev |-> "sleep", reply |-> NetworkError, wait |-> wait]

\* await self._ensure_client(); backoff = self.INITIAL_BACKOFF; first loop turn
NewRequest == [pc |-> "attempt", attempt |-> 0, backoff |-> INITIAL_BACKOFF,
               wait_time |-> 0, log |-> <<>>]

\* variant: the attempts are counted on the client, over all its requests
RECURSIVE AttemptsOf(_)
AttemptsOf(rs) ==
    IF rs = {} THEN 0
    ELSE LET q == CHOOSE x \in rs : TRUE IN req[q].attempt + AttemptsOf(rs \ {q})
AttemptOnClient(r) == AttemptsOf(Requests)

\* attempt: the loop variable of this call of _request_with_backoff
Attempt(r) == req[r].attempt

\* one turn of: for attempt in range(self.MAX_RETRIES), up to the return,
\* the raise or the sleep
RequestAttempt(r) ==
    /\ req[r].pc = "attempt"
    /\ \E reply \in Replies :
         LET logged == Append(req[r].log, RequestEvent(reply)) IN
         req' = [req EXCEPT ![r] =
                   IF IsSuccess(reply)
                     THEN [@ EXCEPT !.pc = "returned", !.log = logged]
                   ELSE IF IsRateLimited(reply) /\ Attempt(r) < MAX_RETRIES - 1
                     THEN [@ EXCEPT !.pc = "sleeping", !.log = logged,
                                    !.wait_time = WaitTime(req[r].backoff, Attempt(r))]
                   ELSE [@ EXCEPT !.pc = "raised", !.log = logged]]
    /\ UNCHANGED notReqVars

\* await asyncio.sleep(wait_time); backoff = wait_time; continue
RequestSleep(r) ==
    /\ req[r].pc = "sleeping"
    /\ req' = [req EXCEPT ![r] =
                 [@ EXCEPT !.log = Append(@, SleepEvent(req[r].wait_time)),
                           !.backoff = req[r].wait_time,
                           !.attempt = @ + 1,
                           !.pc = IF req[r].attempt + 1 < MAX_RETRIES
                                    THEN "attempt" ELSE "fell_through"]]
    /\ UNCHANGED notReqVars

InitReq ==
    /\ InitJob /\ InitImgIdle
    /\ gate = Idle /\ save = Idle /\ dead_letter = Idle
    /\ req = [r \in Requests |-> NewRequest]
    /\ listing = Idle
    /\ wikitext_call = Idle
    /\ scope = Idle
    /\ repo = Idle
    /\ slug_call = Idle
    /\ parse_call = Idle
    /\ item_tasks = Idle

NextReq ==
    \/ \E r \in Requests : RequestAttempt(r)
    \/ \E r \in Requests : RequestSleep(r)

SpecReq == InitReq /\ [][NextReq]_vars

\* the replies received and the delays slept by request r, in order
RepliesOf(r) ==
    LET idx == {i \in 1..Len(req[r].log) : req[r].log[i].ev = "request"}
    IN [k \in 1..Cardinality(idx) |->
          req[r].log[CHOOSE i \in idx : Cardinality({j \in idx : j < i}) = k - 1].reply]
SleepsOf(r) ==
    LET idx == {i \in 1..Len(req[r].log) : req[r].log[i].ev = "sleep"}
    IN [k \in 1..Cardinality(idx) |->
          req[r].log[CHOOSE i \in idx : Cardinality({j \in idx : j < i}) = k - 1].wait]
LastEvent(r) == req[r].log[Len(req[r].log)]
Finished(r) == req[r].pc \in {"returned", "raised", "fell_through"}

\* C11: a 429 is retried, at most 3 requests in all, sleeping 1 before the
\* second and 2 before the third; the first success is returned at once; three
\* 429s raise the HTTP error with no fourth request and no third sleep.
C11_RateLimitRetry ==
    \A r \in Requests :
        LET replies == RepliesOf(r)
            sleeps == SleepsOf(r)
        IN
        /\ Len(replies) <= 3
        /\ Len(sleeps) <= 2
        /\ \A k \in 1..Len(sleeps) : sleeps[k] = 2 ^ (k - 1)
        \* every sleep sits between a 429 and the next request
        /\ \A i \in 1..Len(req[r].log) :
              req[r].log[i].ev = "sleep" =>
                  /\ i > 1 /\ req[r].log[i - 1] = RequestEvent(Response(429))
                  /\ i < Len(req[r].log) => req[r].log[i + 1].ev = "request"
        \* a 429 on the first or second request is always followed by its sleep
        /\ \A k \in 1..Len(replies) :
              (replies[k] = Response(429) /\ k < 3) =>
                  (Len(sleeps) >= k \/ req[r].pc = "sleeping")
        /\ req[r].pc = "returned" =>
              /\ replies[Len(replies)] = Response(200)
              /\ LastEvent(r).ev = "request"
              /\ \A k \in 1..(Len(replies) - 1) : replies[k] = Response(429)
        /\ \A k \in 1..Len(replies) :
              replies[k] = Response(200) => (k = Len(replies) /\ req[r].pc = "returned")
        /\ (Len(replies) = 3 /\ \A k \in 1..3 : replies[k] = Response(429)) =>
              (req[r].pc = "raised" /\ Len(sleeps) = 2 /\ LastEvent(r).ev = "request")
        /\ req[r].pc # "fell_through"

C11_Witness ==
    \E r, q \in Requests :
        /\ req[r].pc = "raised"
        /\ RepliesOf(r) = <<Response(429), Response(429), Response(429)>>
        /\ SleepsOf(r) = <<1, 2>>
        /\ req[q].pc = "returned"
        /\ RepliesOf(q) = <<Response(429), Response(200)>>
        /\ SleepsOf(q) = <<1>>

\* a reply that is neither a success nor a 429
IsOtherError(reply) == ~IsSuccess(reply) /\ reply # Response(429)

\* C12: an HTTP error other than 429, or a network error, is raised at once:
\* it is the last event of the request (no sleep, no further attempt), also
\* when it comes on a retry after a 429; on the first attempt the request
\* ends after exactly one request and no sleep.
C12_NoRetryForOtherErrors ==
    \A r \in Requests :
        \A i \in 1..Len(req[r].log) :
            (req[r].log[i].ev = "request" /\ IsOtherError(req[r].log[i].reply)) =>
                /\ i = Len(req[r].log)
                /\ req[r].pc = "raised"
                /\ i = 1 => (Len(RepliesOf(r)) = 1 /\ SleepsOf(r) = <<>>)
                /\ \A j \in 1..(i - 1) :
                      req[r].log[j].ev = "request" => req[r].log[j].reply = Response(429)

C12_Witness ==
    \E r, q \in Requests :
        /\ req[r].pc = "raised" /\ req[r].log = <<RequestEvent(Response(500))>>
        /\ req[q].pc = "raised"
        /\ req[q].log = <<RequestEvent(Response(429)), SleepEvent(1),
                          RequestEvent(NetworkError)>>

(* ---------------------------------------------------------------------- *)
(* TibiaWikiClient.get_all_bosses                                          *)
(* ---------------------------------------------------------------------- *)
MaxPages == 3         \* page requests one listing call may issue

\* cmcontinue values: two real tokens, and the empty value an API reply can
\* carry, which Python treats as false like None
Tokens == {1, 2}
EmptyToken == 0
Truthy(token) == token # None /\ token # EmptyToken

\* data = response.json(): the "continue" key may be missing, and when it is
\* there data["continue"].get("cmcontinue") may be None
Data(has_continue, token, members) ==
    [has_continue |-> has_continue, cmcontinue |-> token, categorymembers |-> members]
MemberLists == {<<>>, <<1>>, <<2>>, <<1, 2>>}
DataReplies ==
    {Data(FALSE, None, m) : m \in MemberLists}
        \cup {Data(TRUE, t, m) : t \in Tokens \cup {EmptyToken, None}, m \in MemberLists}

\* if cmcontinue: params["cmcontinue"] = cmcontinue
TokenParam(cmcontinue) == IF Truthy(cmcontinue) THEN cmcontinue ELSE None

\* variant: the loop goes on whenever the "continue" key is present
MorePagesKeyOnly(data) == data.has_continue

\* the loop goes on: "continue" in data and its cmcontinue is not falsy
MorePages(data) == data.has_continue /\ Truthy(data.cmcontinue)

\* all_bosses = []; cmcontinue = None
NewListing == [pc |-> "request", cmcontinue |-> None, all_bosses |-> <<>>,
               sent |-> <<>>, replies |-> <<>>, out |-> <<>>]

\* one turn of the while True loop whose request comes back with data
ListPage ==
    /\ listing.pc = "request"
    /\ Len(listing.sent) < MaxPages
    /\ \E data \in DataReplies :
         listing' = [listing EXCEPT
                       !.sent = Append(@, TokenParam(listing.cmcontinue)),
                       !.replies = Append(@, data),
                       !.all_bosses = @ \o data.categorymembers,
                       !.cmcontinue = IF data.has_continue THEN data.cmcontinue ELSE @,
                       !.pc = IF MorePages(data) THEN "request" ELSE "returned",
                       !.out = IF MorePages(data) THEN @
                               ELSE listing.all_bosses \o data.categorymembers]
    /\ UNCHANGED notListingVars

\* one turn of the loop whose _request_with_backoff raises
ListPageRaises ==
    /\ listing.pc = "request"
    /\ Len(listing.sent) < MaxPages
    /\ listing' = [listing EXCEPT
                     !.sent = Append(@, TokenParam(listing.cmcontinue)),
                     !.pc = "raised"]
    /\ UNCHANGED notListingVars

InitList ==
    /\ InitJob /\ InitImgIdle
    /\ gate = Idle /\ save = Idle /\ dead_letter = Idle
    /\ req = Idle
    /\ listing = NewListing
    /\ wikitext_call = Idle
    /\ scope = Idle
    /\ repo = Idle
    /\ slug_call = Idle
    /\ parse_call = Idle
    /\ item_tasks = Idle

NextList ==
    \/ ListPage
    \/ ListPageRaises

SpecList == InitList /\ [][NextList]_vars

CarriesToken(data) == data.has_continue /\ data.cmcontinue \in Tokens
MembersOf(replies) == Concat([k \in 1..Len(replies) |-> replies[k].categorymembers])

\* C13: the first request carries no token and each later one the token of the
\* response just before it; the first response without a token ends the call,
\* which returns the members of all pages in request order; when that is the
\* k-th response exactly k requests were made.
C13_ContinuationPagination ==
    LET sent == listing.sent
        replies == listing.replies
    IN
    /\ Len(sent) >= 1 => sent[1] = None
    /\ \A k \in 2..Len(sent) :
          /\ CarriesToken(replies[k - 1])
          /\ sent[k] = replies[k - 1].cmcontinue
    /\ \A k \in 1..Len(replies) :
          ~CarriesToken(replies[k]) =>
              /\ k = Len(replies)
              /\ Len(sent) = k
              /\ listing.pc = "returned"
    /\ listing.pc = "returned" =>
          /\ Len(replies) >= 1
          /\ ~CarriesToken(replies[Len(replies)])
          /\ listing.out = MembersOf(replies)
    /\ listing.pc = "request" => Len(sent) = Len(replies)
    /\ listing.pc = "raised" => (Len(sent) = Len(replies) + 1 /\ listing.out = <<>>)

C13_Witness ==
    /\ listing.pc = "returned"
    /\ listing.sent = <<None, 1, 2>>
    /\ listing.out = <<1, 2, 1>>
    /\ listing.replies[3].has_continue

(* ---------------------------------------------------------------------- *)
(* TibiaWikiClient.get_boss_wikitext                                       *)
(* ---------------------------------------------------------------------- *)
MaxPageId == 2        \* page ids a caller passes are 0..MaxPageId, or None

\* title: Optional[str]; NoneTitle stands for None, "" is the empty string
NoneTitle == "<None>"
PageTitles == {"Ferumbras", "Morgaroth"}
TitleArgs == {NoneTitle, ""} \cup PageTitles
PageIdArgs == {None} \cup (0..MaxPageId)

\* Python truth value of the two arguments
PageIdGiven(pageid) == pageid # None /\ pageid # 0
TitleGiven(title) == title # NoneTitle /\ title # ""

\* variant: both arguments together are rejected as well
InvalidArgumentsUnlessExactlyOne(pageid, title) == PageIdGiven(pageid) = TitleGiven(title)

\* if not pageid and not title: raise ValueError
InvalidArguments(pageid, title) == ~PageIdGiven(pageid) /\ ~TitleGiven(title)

\* if pageid: params["pageids"] = pageid  else: params["titles"] = title
NoParams == [sent |-> FALSE, pageids |-> None, titles |-> NoneTitle]
ParamsFor(pageid, title) ==
    IF PageIdGiven(pageid)
      THEN [sent |-> TRUE, pageids |-> pageid, titles |-> NoneTitle]
      ELSE [sent |-> TRUE, pageids |-> None, titles |-> title]

\* data["query"]["pages"]: no entry, or one entry that is marked missing, has
\* no revisions, or carries content
PageInfos ==
    [pageid : 1..MaxPageId, title : PageTitles, state : {"missing", "no_revisions", "content"}]
PagesReplies == {{}} \cup {{info} : info \in PageInfos}

\* page_data = pages.get(str(pageid)), or the entry whose title equals title
PageData(pages, pageid, title) ==
    IF PageIdGiven(pageid)
      THEN {info \in pages : info.pageid = pageid}
      ELSE {info \in pages : info.title = title}

\* the return value: None unless the entry exists, is not missing and has a
\* revision, and then that revision's content
Returned(pages, pageid, title) ==
    LET page_data == PageData(pages, pageid, title) IN
    IF page_data = {} THEN [kind |-> "None", of |-> 0]
    ELSE LET info == CHOOSE i \in page_data : TRUE IN
         IF info.state = "content" THEN [kind |-> "content", of |-> info.pageid]
         ELSE [kind |-> "None", of |-> 0]

\* the argument check and the building of params
WikitextCall ==
    /\ wikitext_call.pc = "call"
    /\ wikitext_call' =
         IF InvalidArguments(wikitext_call.pageid, wikitext_call.title)
           THEN [wikitext_call EXCEPT !.pc = "ValueError"]
           ELSE [wikitext_call EXCEPT
                   !.pc = "request",
                   !.params = ParamsFor(wikitext_call.pageid, wikitext_call.title)]
    /\ UNCHANGED notWikitextVars

\* response = await self._request_with_backoff(...) and the lookup in it
WikitextReply ==
    /\ wikitext_call.pc = "request"
    /\ \E pages \in PagesReplies :
         wikitext_call' = [wikitext_call EXCEPT
                             !.pc = "returned",
                             !.pages = pages,
                             !.out = Returned(pages, wikitext_call.pageid, wikitext_call.title)]
    /\ UNCHANGED notWikitextVars

\* _request_with_backoff raises
WikitextRequestRaises ==
    /\ wikitext_call.pc = "request"
    /\ wikitext_call' = [wikitext_call EXCEPT !.pc = "raised"]
    /\ UNCHANGED notWikitextVars

InitWikitext ==
    /\ InitJob /\ InitImgIdle
    /\ gate = Idle /\ save = Idle /\ dead_letter = Idle
    /\ req = Idle
    /\ listing = Idle
    /\ \E pageid \in PageIdArgs, title \in TitleArgs :
         wikitext_call = [pc |-> "call", pageid |-> pageid, title |-> title,
                          params |-> NoParams, pages |-> {},
                          out |-> [kind |-> "None", of |-> 0]]
    /\ scope = Idle
    /\ repo = Idle
    /\ slug_call = Idle
    /\ parse_call = Idle
    /\ item_tasks = Idle

NextWikitext ==
    \/ WikitextCall
    \/ WikitextReply
    \/ WikitextRequestRaises

SpecWikitext == InitWikitext /\ [][NextWikitext]_vars

MaxNameLen == 3       \* longest name, in characters

\* a string is the sequence of its characters; one character of each class
\* the two patterns tell apart, "e_acute" being a letter outside ASCII
UpperLetters == {"A"}
LowerLetters == {"a", "b", "e_acute"}
Digits == {"7"}
Underscore == "_"
Spaces == {" "}
Hyphen == "-"
Specials == {"!"}
NameChars == UpperLetters \cup {"b", "e_acute"} \cup Digits \cup {Underscore}
                 \cup Spaces \cup {Hyphen} \cup Specials

RECURSIVE SeqsUpTo(_, _)
SeqsUpTo(S, n) ==
    IF n = 0 THEN {<<>>}
    ELSE LET shorter == SeqsUpTo(S, n - 1) IN
         shorter \cup {Append(s, c) : s \in {t \in shorter : Len(t) = n - 1}, c \in S}
Names == SeqsUpTo(NameChars, MaxNameLen)

\* name.lower()
LowerChar(c) == IF c = "A" THEN "a" ELSE c
Lower(name) == [i \in 1..Len(name) |-> LowerChar(name[i])]

\* \w : letters of any script, digits and the underscore
IsWordChar(c) == c \in UpperLetters \cup LowerLetters \cup Digits \cup {Underscore}
\* \s
IsSpaceChar(c) == c \in Spaces

\* re.sub(r"[^\w\s-]", "", s)
RemoveSpecials(s) ==
    LET Keep(c) == IsWordChar(c) \/ IsSpaceChar(c) \/ c = Hyphen IN SelectSeq(s, Keep)

\* re.sub(r"[-\s]+", "-", s)
IsSeparator(c) == c = Hyphen \/ IsSpaceChar(c)
RECURSIVE DropSeparators(_)
DropSeparators(s) ==
    IF s # <<>> /\ IsSeparator(Head(s)) THEN DropSeparators(Tail(s)) ELSE s
RECURSIVE CollapseSeparators(_)
CollapseSeparators(s) ==
    IF s = <<>> THEN <<>>
    ELSE IF IsSeparator(Head(s)) THEN <<Hyphen>> \o CollapseSeparators(DropSeparators(s))
    ELSE <<Head(s)>> \o CollapseSeparators(Tail(s))

\* s.strip("-")
RECURSIVE LStrip(_)
LStrip(s) == IF s # <<>> /\ Head(s) = Hyphen THEN LStrip(Tail(s)) ELSE s
RECURSIVE RStrip(_)
RStrip(s) ==
    IF s # <<>> /\ s[Len(s)] = Hyphen THEN RStrip(SubSeq(s, 1, Len(s) - 1)) ELSE s
Strip(s) == RStrip(LStrip(s))

_generate_slug(name) == Strip(CollapseSeparators(RemoveSpecials(Lower(name))))

\* slug = re.sub(r"[^\w\s-]", "", name.lower())
SlugRemoveSpecials ==
    /\ slug_call.pc = "call"
    /\ slug_call' = [slug_call EXCEPT !.pc = "collapse",
                                      !.slug = RemoveSpecials(Lower(slug_call.name))]
    /\ UNCHANGED notSlugVars

\* slug = re.sub(r"[-\s]+", "-", slug)
SlugCollapse ==
    /\ slug_call.pc = "collapse"
    /\ slug_call' = [slug_call EXCEPT !.pc = "strip", !.slug = CollapseSeparators(@)]
    /\ UNCHANGED notSlugVars

\* slug = slug.strip("-"); return slug
SlugStrip ==
    /\ slug_call.pc = "strip"
    /\ slug_call' = [slug_call EXCEPT !.pc = "returned", !.slug = Strip(@)]
    /\ UNCHANGED notSlugVars

InitSlug ==
    /\ InitJob /\ InitImgIdle
    /\ gate = Idle /\ save = Idle /\ dead_letter = Idle
    /\ req = Idle
    /\ listing = Idle
    /\ wikitext_call = Idle
    /\ scope = Idle
    /\ repo = Idle
    /\ \E name \in Names : slug_call = [pc |-> "call", name |-> name, slug |-> <<>>]
    /\ parse_call = Idle
    /\ item_tasks = Idle

NextSlug ==
    \/ SlugRemoveSpecials
    \/ SlugCollapse
    \/ SlugStrip

SpecSlug == InitSlug /\ [][NextSlug]_vars

\* C16: the derived slug is the same whenever it is derived from the same
\* name, contains only lowercase letters, digits and hyphens, and has no
\* leading or trailing hyphen.
C16_SlugCharset ==
    slug_call.pc = "returned" =>
        /\ slug_call.slug = _generate_slug(slug_call.name)
        /\ \A i \in 1..Len(slug_call.slug) :
              slug_call.slug[i] \in LowerLetters \cup Digits \cup {Hyphen}
        /\ slug_call.slug # <<>> =>
              (Head(slug_call.slug) # Hyphen /\ slug_call.slug[Len(slug_call.slug)] # Hyphen)

(* ---------------------------------------------------------------------- *)
(* BossRepository.upsert, BossRepository.upsert_batch                      *)
(* ---------------------------------------------------------------------- *)
MaxUpserts == 3       \* upsert calls made on the repository in all
MaxBatch == 2         \* longest list handed to upsert_batch

\* BossModel: name, the optional slug (<<>> when not provided), and hp standing
\* for every other field model_dump() writes. Two of the records derive the
\* same slug from different names, and one provides the slug another derives.
Boss(name, slug, hp) == [name |-> name, slug |-> slug, hp |-> hp]
BossModels ==
    {Boss(<<"A">>, <<>>, 100), Boss(<<"a">>, <<>>, None),
     Boss(<<"b">>, <<>>, 100), Boss(<<"A">>, <<"b">>, None)}

\* slug = boss.slug or boss.get_slug()
SlugKey(boss) == IF boss.slug # <<>> THEN boss.slug ELSE _generate_slug(boss.name)

\* boss_dict = boss.model_dump(exclude={"slug"}); boss_dict["slug"] = slug
BossDict(boss) == [name |-> boss.name, hp |-> boss.hp, slug |-> SlugKey(boss)]

\* variant: the filter matches on the name
MatchingDocsByName(collection, boss) == {d \in collection : d.name = boss.name}

\* variant: an empty filter, matching every document
MatchingDocsAny(collection, boss) == collection

\* the documents the filter {"slug": slug} matches
MatchingDocs(collection, boss) == {d \in collection : d.slug = SlugKey(boss)}

\* find_one_and_update(filter, {"$set": boss_dict}, upsert=True): the matched
\* document keeps its _id and takes the fields of boss_dict; with no match a
\* new document is inserted
FindOneAndUpdate(collection, next_id, boss) ==
    LET matched == MatchingDocs(collection, boss)
        fields == BossDict(boss)
        Doc(id) == [_id |-> id, name |-> fields.name, hp |-> fields.hp, slug |-> fields.slug]
    IN IF matched = {}
         THEN collection \cup {Doc(next_id)}
         ELSE LET d == CHOOSE m \in matched : \A o \in matched : m._id <= o._id
              IN (collection \ {d}) \cup {Doc(d._id)}

UpsertCall(boss, ok, before) == [boss |-> boss, ok |-> ok, before |-> before]

\* what one upsert(boss) does to the repository, the update going through
UpsertOk(r, boss) ==
    [r EXCEPT !.collection = FindOneAndUpdate(r.collection, r.next_id, boss),
              !.next_id = @ + 1,
              !.history = Append(@, UpsertCall(boss, TRUE, r.collection))]

\* the update raising: except Exception: return False
UpsertFailed(r, boss) ==
    [r EXCEPT !.history = Append(@, UpsertCall(boss, FALSE, r.collection))]

\* await repository.upsert(boss), returning True
Upsert ==
    /\ repo.pc = "ready"
    /\ Len(repo.history) < MaxUpserts
    /\ \E boss \in BossModels : repo' = UpsertOk(repo, boss)
    /\ UNCHANGED notRepoVars

\* await repository.upsert(boss), returning False
UpsertRaises ==
    /\ repo.pc = "ready"
    /\ Len(repo.history) < MaxUpserts
    /\ \E boss \in BossModels : repo' = UpsertFailed(repo, boss)
    /\ UNCHANGED notRepoVars

\* upsert_batch(bosses): if not bosses: return 0; success_count = 0
UpsertBatchStart ==
    /\ repo.pc = "ready"
    /\ \E batch \in SeqsUpTo(BossModels, MaxBatch) :
         repo' = IF batch = <<>>
                   THEN [repo EXCEPT !.out = 0]
                   ELSE [repo EXCEPT !.pc = "batch", !.bosses = batch,
                                     !.success_count = 0, !.out = None]
    /\ UNCHANGED notRepoVars

\* one turn of: for boss in bosses: if await self.upsert(boss): success_count += 1
UpsertBatchStep ==
    /\ repo.pc = "batch"
    /\ repo.bosses # <<>>
    /\ Len(repo.history) < MaxUpserts
    /\ \E ok \in BOOLEAN :
         LET r == IF ok THEN UpsertOk(repo, Head(repo.bosses))
                        ELSE UpsertFailed(repo, Head(repo.bosses))
         IN repo' = [r EXCEPT !.bosses = Tail(@),
                              !.success_count = IF ok THEN @ + 1 ELSE @]
    /\ UNCHANGED notRepoVars

\* return success_count
UpsertBatchReturn ==
    /\ repo.pc = "batch"
    /\ repo.bosses = <<>>
    /\ repo' = [repo EXCEPT !.pc = "ready", !.out = repo.success_count]
    /\ UNCHANGED notRepoVars

InitRepo ==
    /\ InitJob /\ InitImgIdle
    /\ gate = Idle /\ save = Idle /\ dead_letter = Idle
    /\ req = Idle
    /\ listing = Idle
    /\ wikitext_call = Idle
    /\ scope = Idle
    /\ repo = [pc |-> "ready", collection |-> {}, next_id |-> 1, history |-> <<>>,
               bosses |-> <<>>, success_count |-> 0, out |-> None]
    /\ slug_call = Idle
    /\ parse_call = Idle
    /\ item_tasks = Idle

NextRepo ==
    \/ Upsert
    \/ UpsertRaises
    \/ UpsertBatchStart
    \/ UpsertBatchStep
    \/ UpsertBatchReturn

SpecRepo == InitRepo /\ [][NextRepo]_vars

\* the collection each recorded call left behind
AfterCall(k) == IF k = Len(repo.history) THEN repo.collection ELSE repo.history[k + 1].before
WithSlug(collection, slug) == {d \in collection : d.slug = slug}

\* C15: the store never holds two documents with one slug; a successful upsert
\* leaves exactly one document under the record's slug, carrying the record's
\* field values, adds a document only if the slug was not stored, and leaves
\* every other document alone; the same record upserted twice in a row leaves
\* the store as the first upsert left it.
C15_UpsertIdempotentBySlug ==
    /\ \A d1, d2 \in repo.collection : d1.slug = d2.slug => d1 = d2
    /\ \A k \in 1..Len(repo.history) :
          LET call == repo.history[k]
              after == AfterCall(k)
              slug == SlugKey(call.boss)
          IN IF call.ok
               THEN /\ \E d \in after :
                         /\ WithSlug(after, slug) = {d}
                         /\ d.name = call.boss.name /\ d.hp = call.boss.hp
                    /\ Cardinality(after) = Cardinality(call.before)
                           + (IF WithSlug(call.before, slug) = {} THEN 1 ELSE 0)
                    /\ after \ WithSlug(after, slug) = call.before \ WithSlug(call.before, slug)
                    /\ (k > 1 /\ repo.history[k - 1].ok /\ repo.history[k - 1].boss = call.boss)
                           => after = call.before
               ELSE after = call.before

C15_Witness ==
    /\ Len(repo.history) = 3
    /\ \A k \in 1..3 : repo.history[k].ok
    /\ repo.history[1].boss.name = <<"A">> /\ repo.history[1].boss.slug = <<>>
    /\ repo.history[2].boss.name = <<"a">> /\ repo.history[2].boss.slug = <<>>
    /\ repo.history[2].boss.hp # repo.history[1].boss.hp
    /\ repo.history[3].boss = repo.history[2].boss
    /\ Cardinality(repo.collection) = 1
    /\ repo.pc = "ready" /\ repo.out = 2

(* ---------------------------------------------------------------------- *)
(* WikitextParser._extract_template_data: the name of the record           *)
(* ---------------------------------------------------------------------- *)
MaxParams == 2        \* parameters of the infobox template

\* str(param.name).strip(): unnamed parameters come with "" or their position
ParamNames == {"", "1", "2", "Name", "hp"}
ParamValues == {"", "Ferumbras", "Orshabaal"}
TemplateParams == [name : ParamNames, value : ParamValues]
Templates == SeqsUpTo(TemplateParams, MaxParams)
\* boss_name: Optional[str], the page title the caller passes
FallbackNames == {NoneTitle, "", "Page Title"}

\* param_name_str.isdigit()
IsDigitName(param_name) == param_name \in {"1", "2"}
\* str(param.name).strip().lower()
LowerName(param_name) == IF param_name = "Name" THEN "name" ELSE param_name
\* field_mapping, as far as these parameter names go
FieldOf(param_name) ==
    IF LowerName(param_name) = "name" THEN "name"
    ELSE IF LowerName(param_name) = "hp" THEN "hp"
    ELSE "unmapped"

\* "name": boss_name or ""
InitialName(boss_name) == IF TitleGiven(boss_name) THEN boss_name ELSE ""

\* the first loop: the value of the first parameter whose name is empty or
\* "1"; the name is left alone when there is none
RECURSIVE PositionalName(_, _)
PositionalName(params, name) ==
    IF params = <<>> THEN name
    ELSE IF (Head(params).name = "" \/ IsDigitName(Head(params).name))
            /\ (Head(params).name = "1" \/ Head(params).name = "")
      THEN Head(params).value
    ELSE PositionalName(Tail(params), name)

\* the second loop: every name field with a non-empty value overwrites the name
RECURSIVE NameFields(_, _)
NameFields(params, name) ==
    IF params = <<>> THEN name
    ELSE IF FieldOf(Head(params).name) = "name" /\ Head(params).value # ""
      THEN NameFields(Tail(params), Head(params).value)
    ELSE NameFields(Tail(params), name)

\* data = {"name": boss_name or "", ...}; if not data["name"]: first loop
ExtractPositional ==
    /\ parse_call.pc = "call"
    /\ parse_call' =
         [parse_call EXCEPT
            !.pc = "fields",
            !.name = IF InitialName(parse_call.boss_name) = ""
                       THEN PositionalName(parse_call.params, "")
                       ELSE InitialName(parse_call.boss_name)]
    /\ UNCHANGED notParseVars

\* for param in template.params: ... if field_name == "name": data["name"] = param_value
ExtractFields ==
    /\ parse_call.pc = "fields"
    /\ parse_call' = [parse_call EXCEPT
                        !.pc = "fallback",
                        !.name = NameFields(parse_call.params, @)]
    /\ UNCHANGED notParseVars

\* if not data["name"] and boss_name: data["name"] = boss_name; BossModel(**data)
ExtractFallback ==
    /\ parse_call.pc = "fallback"
    /\ parse_call' = [parse_call EXCEPT
                        !.pc = "returned",
                        !.name = IF @ = "" /\ TitleGiven(parse_call.boss_name)
                                   THEN parse_call.boss_name ELSE @]
    /\ UNCHANGED notParseVars

InitParse ==
    /\ InitJob /\ InitImgIdle
    /\ gate = Idle /\ save = Idle /\ dead_letter = Idle
    /\ req = Idle
    /\ listing = Idle
    /\ wikitext_call = Idle
    /\ scope = Idle
    /\ repo = Idle
    /\ slug_call = Idle
    /\ \E params \in Templates, boss_name \in FallbackNames :
         parse_call = [pc |-> "call", params |-> params, boss_name |-> boss_name,
                       name |-> ""]
    /\ item_tasks = Idle

NextParse ==
    \/ ExtractPositional
    \/ ExtractFields
    \/ ExtractFallback

SpecParse == InitParse /\ [][NextParse]_vars

\* the template's name fields with a non-empty value, and its unnamed (or
\* first-position) parameters, in template order
ExplicitNames(params) ==
    SelectSeq(params, LAMBDA p : FieldOf(p.name) = "name" /\ p.value # "")
Positionals(params) ==
    SelectSeq(params, LAMBDA p : p.name \in {"", "1"})

\* C17: the record's name is the template's non-empty name field if there is
\* one; otherwise the first positional parameter if there is one; otherwise
\* the fallback name; otherwise empty. With no name field, a positional
\* parameter and a fallback both given, the positional parameter wins.
C17_NameResolutionOrder ==
    parse_call.pc = "returned" =>
        LET explicit == ExplicitNames(parse_call.params)
            positional == Positionals(parse_call.params)
        IN IF explicit # <<>>
             THEN \E k \in 1..Len(explicit) : parse_call.name = explicit[k].value
           ELSE IF positional # <<>> /\ positional[1].value # ""
             THEN parse_call.name = positional[1].value
           ELSE IF TitleGiven(parse_call.boss_name)
             THEN parse_call.name = parse_call.boss_name
           ELSE parse_call.name = ""

(* ---------------------------------------------------------------------- *)
(* process_boss and the gather / filter step of run_scraper_job            *)
(* ---------------------------------------------------------------------- *)
NumItems == 3         \* bosses the listing returned

MAX_CONCURRENT_REQUESTS == 10

Items == 1..NumItems
ItemTitles == <<"Ferumbras", "Morgaroth", "Orshabaal", "Ghazbaran", "Zugurosh">>
\* boss_info: {"pageid": ..., "title": ...}
BossInfo(i) == [pageid |-> i, title |-> ItemTitles[i]]

\* how the work on one item can go: get_boss_wikitext raises, returns nothing,
\* returns wikitext that WikitextParser.parse rejects, or wikitext it accepts
Outcomes == {"fetch_error", "absent", "parser_error", "record"}

\* what process_boss returns: the model, or None after each of its three
\* failure exits (if not wikitext, except ParserError, except Exception)
ProcessBossResult(boss_info, outcome) ==
    IF outcome = "record"
      THEN [kind |-> "BossModel", pageid |-> boss_info.pageid]
      ELSE [kind |-> "None", pageid |-> boss_info.pageid]

\* the line process_boss writes to the module logger on each exit
LogLine(boss_info, outcome) ==
    [level |-> CASE outcome = "record" -> "debug"
                 [] outcome = "absent" -> "warning"
                 [] OTHER -> "error",
     boss_name |-> boss_info.title]

\* variant: everything that is not an exception is kept
IsProcessedNotException(result) == result.kind # "Exception"

\* if isinstance(result, BossModel): processed_bosses.append(result)
IsProcessed(result) == result.kind = "BossModel"

\* dead_letter_logger.log_parsing_error(boss_name="unknown", error=result, raw_data=None)
DeadLetterEntry(boss_name, error, raw_data) ==
    [boss_name |-> boss_name, error_message |-> error, raw_data_snippet |-> raw_data]

NewTask == [pc |-> "created", outcome |-> "none", result |-> [kind |-> "None", pageid |-> 0]]

\* async with semaphore: entered when a permit is free
TaskEnter(i) ==
    /\ item_tasks.pc = "gather"
    /\ item_tasks.task[i].pc = "created"
    /\ item_tasks.permits > 0
    /\ item_tasks' = [item_tasks EXCEPT !.permits = @ - 1, !.task[i].pc = "fetching"]
    /\ UNCHANGED notItemsVars

\* the rest of process_boss: the fetch comes back, the wikitext is parsed, the
\* exit is logged, the permit is given back and the task returns
TaskFinish(i) ==
    /\ item_tasks.pc = "gather"
    /\ item_tasks.task[i].pc = "fetching"
    /\ \E outcome \in Outcomes :
         item_tasks' = [item_tasks EXCEPT
                          !.permits = @ + 1,
                          !.task[i] = [pc |-> "done", outcome |-> outcome,
                                       result |-> ProcessBossResult(BossInfo(i), outcome)],
                          !.log = Append(@, LogLine(BossInfo(i), outcome))]
    /\ UNCHANGED notItemsVars

\* results = await asyncio.gather(*tasks, return_exceptions=True) and the loop
\* that sorts the results
GatherResults ==
    /\ item_tasks.pc = "gather"
    /\ \A i \in Items : item_tasks.task[i].pc = "done"
    /\ LET results == [i \in Items |-> item_tasks.task[i].result]
           failed == SelectSeq(results, LAMBDA r : r.kind = "Exception")
       IN item_tasks' = [item_tasks EXCEPT
                           !.pc = "filtered",
                           !.processed_bosses = SelectSeq(results, IsProcessed),
                           !.dead_letter = [k \in 1..Len(failed) |->
                                              DeadLetterEntry("unknown", "exception", "")]]
    /\ UNCHANGED notItemsVars

InitItems ==
    /\ InitJob /\ InitImgIdle
    /\ gate = Idle /\ save = Idle /\ dead_letter = Idle
    /\ req = Idle
    /\ listing = Idle
    /\ wikitext_call = Idle
    /\ scope = Idle
    /\ repo = Idle
    /\ slug_call = Idle
    /\ parse_call = Idle
    /\ item_tasks = [pc |-> "gather", task |-> [i \in Items |-> NewTask],
                     permits |-> MAX_CONCURRENT_REQUESTS, log |-> <<>>,
                     processed_bosses |-> <<>>, dead_letter |-> <<>>]

NextItems ==
    \/ \E i \in Items : TaskEnter(i)
    \/ \E i \in Items : TaskFinish(i)
    \/ GatherResults

SpecItems == InitItems /\ [][NextItems]_vars

Succeeded(i) == item_tasks.task[i].outcome = "record"
FailedItems == {i \in Items : item_tasks.task[i].pc = "done" /\ ~Succeeded(i)}

\* C18: each finished item ends as a record or as dropped according to its own
\* fetch and extraction alone, whatever happened to the others; the results
\* are gathered only when every item has finished, and the records handed on
\* are exactly the items whose fetch and extraction succeeded, in list order.
C18_PerItemIsolation ==
    /\ \A i \in Items :
          item_tasks.task[i].pc = "done" =>
              /\ item_tasks.task[i].result.pageid = i
              /\ (item_tasks.task[i].result.kind = "BossModel") <=> Succeeded(i)
              /\ ~Succeeded(i) => item_tasks.task[i].result.kind = "None"
    /\ item_tasks.pc = "filtered" =>
          /\ \A i \in Items : item_tasks.task[i].pc = "done"
          /\ {r.pageid : r \in Range(item_tasks.processed_bosses)}
                 = {i \in Items : Succeeded(i)}
          /\ Len(item_tasks.processed_bosses) = Cardinality({i \in Items : Succeeded(i)})
          /\ \A k \in 1..(Len(item_tasks.processed_bosses) - 1) :
                item_tasks.processed_bosses[k].pageid
                    < item_tasks.processed_bosses[k + 1].pageid

C18_Witness ==
    /\ item_tasks.pc = "filtered"
    /\ item_tasks.task[1].outcome = "parser_error"
    /\ item_tasks.task[2].outcome = "record"
    /\ item_tasks.task[3].outcome = "fetch_error"
    /\ Len(item_tasks.processed_bosses) = 1
    /\ item_tasks.processed_bosses[1].pageid = 2
    /\ item_tasks.log[1].boss_name = "Orshabaal"

\* C19: once the run has gathered its results, every item whose processing
\* failed has exactly one dead-letter entry, carrying that item's name.
C19_DeadLetterPerFailure ==
    item_tasks.pc = "filtered" =>
        \A i \in FailedItems :
            Cardinality({k \in 1..Len(item_tasks.dead_letter) :
                           item_tasks.dead_letter[k].boss_name = ItemTitles[i]}) = 1

(* ---------------------------------------------------------------------- *)
(* TibiaWikiClient as a context manager                                    *)
(* ---------------------------------------------------------------------- *)
NumCalls == 3         \* calls made on the client inside one scope

Calls == 1..NumCalls

\* variant: a new pool is created on every call
EnsureClientAlways(s) ==
    [s EXCEPT !._client = Len(s.pools) + 1, !.pools = Append(@, "open")]

\* _ensure_client: if self._client is None: self._client = httpx.AsyncClient(...)
EnsureClient(s) ==
    IF s._client = None
      THEN [s EXCEPT !._client = Len(s.pools) + 1, !.pools = Append(@, "open")]
      ELSE s

\* self._client: Optional[httpx.AsyncClient] = None
NewClient == [pc |-> "created", _client |-> None, pools |-> <<>>,
              call |-> [c \in Calls |-> [pc |-> "idle", pool |-> None]],
              exit |-> "none"]

\* async with TibiaWikiClient() as client: __aenter__
ScopeEnter ==
    /\ scope.pc = "created"
    /\ scope' = [EnsureClient(scope) EXCEPT !.pc = "inside"]
    /\ UNCHANGED notScopeVars

\* a call inside the scope reaches _request_with_backoff:
\* await self._ensure_client(), then self._client.request(...)
CallRequest(c) ==
    /\ scope.pc = "inside"
    /\ scope.call[c].pc = "idle"
    /\ LET s == EnsureClient(scope) IN
       scope' = [s EXCEPT !.call[c] = [pc |-> "requesting", pool |-> s._client]]
    /\ UNCHANGED notScopeVars

\* the call returns or raises to its task
CallEnd(c) ==
    /\ scope.pc = "inside"
    /\ scope.call[c].pc = "requesting"
    /\ \E end \in {"returned", "raised"} : scope' = [scope EXCEPT !.call[c].pc = end]
    /\ UNCHANGED notScopeVars

\* the body of the async with ends, by reaching its end or by an exception,
\* and __aexit__ runs close() up to: await self._client.aclose()
ScopeExit ==
    /\ scope.pc = "inside"
    /\ \A c \in Calls : scope.call[c].pc # "requesting"
    /\ \E how \in {"normal", "exception"} :
         scope' = IF scope._client # None
                    THEN [scope EXCEPT !.pc = "closing", !.exit = how,
                                       !.pools[scope._client] = "closed"]
                    ELSE [scope EXCEPT !.pc = "exited", !.exit = how]
    /\ UNCHANGED notScopeVars

\* close(), after the await: self._client = None
ScopeClosed ==
    /\ scope.pc = "closing"
    /\ scope' = [scope EXCEPT !.pc = "exited", !._client = None]
    /\ UNCHANGED notScopeVars

InitScope ==
    /\ InitJob /\ InitImgIdle
    /\ gate = Idle /\ save = Idle /\ dead_letter = Idle
    /\ req = Idle
    /\ listing = Idle
    /\ wikitext_call = Idle
    /\ scope = NewClient
    /\ repo = Idle
    /\ slug_call = Idle
    /\ parse_call = Idle
    /\ item_tasks = Idle

NextScope ==
    \/ ScopeEnter
    \/ \E c \in Calls : CallRequest(c)
    \/ \E c \in Calls : CallEnd(c)
    \/ ScopeExit
    \/ ScopeClosed

SpecScope == InitScope /\ [][NextScope]_vars

OpenPools == {p \in 1..Len(scope.pools) : scope.pools[p] = "open"}

\* C20: entering the scope opens one pool; inside the scope that pool is the
\* only one and every call, concurrent ones included, sends its request on
\* it; once the scope is left, normally or by an exception, no pool is open.
C20_ScopedPool ==
    /\ scope.pc = "created" => scope.pools = <<>>
    /\ scope.pc = "inside" =>
          /\ scope.pools = <<"open">>
          /\ scope._client = 1
    /\ \A c \in Calls : scope.call[c].pc # "idle" => scope.call[c].pool = 1
    /\ scope.pc \in {"closing", "exited"} =>
          /\ OpenPools = {}
          /\ Len(scope.pools) = 1
          /\ scope.exit \in {"normal", "exception"}
    /\ scope.pc = "exited" => scope._client = None

C20_Witness ==
    /\ scope.pc = "exited" /\ scope.exit = "exception"
    /\ scope.call[1].pc = "raised"
    /\ scope.call[2].pc = "returned"
    /\ scope.call[1].pool = scope.call[2].pool
    /\ scope.pools = <<"closed">>

(* ---------------------------------------------------------------------- *)
(* The semaphore of one run: process_boss tasks counted by position        *)
(* ---------------------------------------------------------------------- *)
NumListed == 12       \* most bosses a listing returns, above the permit count

notGateVars == <<lockVars, jobVars, imgVars, req, listing, wikitext_call, scope, repo,
                 slug_call, parse_call, item_tasks, save, dead_letter>>

\* variant: the permit is given back on the two return paths of the try body
\* only, the except clauses leave without it
PermitsAfterExitNoFinally(permits, outcome) ==
    IF outcome \in {"record", "absent"} THEN permits + 1 ELSE permits

\* leaving "async with semaphore" releases the permit, whichever way the body ends
PermitsAfterExit(permits, outcome) == permits + 1

\* a task reaches "async with semaphore" while a permit is free and starts its fetch
GateEnter ==
    /\ gate.pc = "gather"
    /\ gate.created > 0
    /\ gate.permits > 0
    /\ gate' = [gate EXCEPT !.created = @ - 1, !.permits = @ - 1, !.in_flight = @ + 1]
    /\ UNCHANGED notGateVars

\* a task's fetch comes back and the task leaves process_boss by one of its exits
GateExit ==
    /\ gate.pc = "gather"
    /\ gate.in_flight > 0
    /\ \E outcome \in Outcomes :
         gate' = [gate EXCEPT !.in_flight = @ - 1,
                              !.permits = PermitsAfterExit(@, outcome),
                              !.exits[outcome] = @ + 1]
    /\ UNCHANGED notGateVars

\* semaphore = asyncio.Semaphore(MAX_CONCURRENT_REQUESTS); one task per listed boss
InitGate ==
    /\ InitJob /\ InitImgIdle
    /\ req = Idle /\ listing = Idle /\ wikitext_call = Idle /\ scope = Idle
    /\ repo = Idle /\ slug_call = Idle /\ parse_call = Idle /\ item_tasks = Idle
    /\ save = Idle /\ dead_letter = Idle
    /\ \E n \in 0..NumListed :
         gate = [pc |-> "gather", listed |-> n, created |-> n, in_flight |-> 0,
                 permits |-> MAX_CONCURRENT_REQUESTS, exits |-> [o \in Outcomes |-> 0]]

NextGate ==
    \/ GateEnter
    \/ GateExit

\* the event loop runs every task that can run, and every fetch returns
SpecGate == InitGate /\ [][NextGate]_vars /\ WF_vars(GateEnter) /\ WF_vars(GateExit)

\* C21: at every moment at most 10 fetch+extract operations are in flight,
\* however many items are listed; the permits in hand and in use always add
\* up to 10, whichever exit each item took; and every listed item is
\* eventually admitted.
C21_BoundedConcurrency ==
    /\ [](/\ gate.in_flight <= 10
          /\ gate.permits >= 0
          /\ gate.permits + gate.in_flight = MAX_CONCURRENT_REQUESTS
          /\ (gate.created > 0 /\ gate.in_flight < 10) => gate.permits > 0)
    /\ <>(gate.created = 0)

C21_Witness ==
    /\ gate.listed = 12
    /\ gate.created = 0 /\ gate.in_flight = 0
    /\ \A o \in Outcomes : gate.exits[o] = 3

(* ---------------------------------------------------------------------- *)
(* The batch loop of run_scraper_job: process_and_save_batch               *)
(* ---------------------------------------------------------------------- *)
MaxRecords == 51      \* most records one run extracts

notSaveVars == <<lockVars, jobVars, imgVars, req, listing, wikitext_call, scope, repo,
                 slug_call, parse_call, item_tasks, gate, dead_letter>>

\* model_config = ConfigDict(frozen=False, ...): pydantic gives a model a
\* __hash__ only when it is frozen, so a BossModel cannot be a dict key
frozen == FALSE

\* processed_bosses: record k with visuals.filename k, or 0 for no filename
ProcessedBosses(n, with_filename) ==
    [k \in 1..n |-> [id |-> k, filename |-> IF k \in with_filename THEN k ELSE 0]]

\* batch = processed_bosses[i : i + BATCH_SIZE]
BatchAt(records, i) == SubSeq(records, i + 1, Min(i + BATCH_SIZE, Len(records)))

\* the first loop of process_batch_with_images reaches
\* boss_to_filenames[boss] = filename, which hashes the model
CollectRaises(batch) == ~frozen /\ \E k \in 1..Len(batch) : batch[k].filename # 0

\* image_filenames of the batch, then list(dict.fromkeys(image_filenames))
BatchFilenames(batch) ==
    Dedup(SelectSeq([k \in 1..Len(batch) |-> batch[k].filename], LAMBDA f : f # 0))

\* one turn of the batch loop: process_and_save_batch(batch, ...). A filename
\* in the batch raises TypeError out of the collecting loop, which leaves the
\* batch loop; else the filenames, if any, go to one resolve_images call (its
\* failure is caught and leaves the URLs empty) and the batch to upsert_batch
SaveBatch ==
    /\ save.pc = "loop"
    /\ save.i < Len(save.processed_bosses)
    /\ LET batch == BatchAt(save.processed_bosses, save.i)
           ids == [k \in 1..Len(batch) |-> batch[k].id]
       IN save' = IF CollectRaises(batch)
                    THEN [save EXCEPT !.pc = "raised"]
                  ELSE IF BatchFilenames(batch) # <<>>
                    THEN [save EXCEPT !.i = @ + BATCH_SIZE,
                                      !.resolves = Append(@, BatchFilenames(batch)),
                                      !.upserts = Append(@, ids)]
                  ELSE [save EXCEPT !.i = @ + BATCH_SIZE, !.upserts = Append(@, ids)]
    /\ UNCHANGED notSaveVars

\* range(0, len(processed_bosses), BATCH_SIZE) is exhausted
SaveDone ==
    /\ save.pc = "loop"
    /\ save.i >= Len(save.processed_bosses)
    /\ save' = [save EXCEPT !.pc = "done"]
    /\ UNCHANGED notSaveVars

InitSave ==
    /\ InitJob /\ InitImgIdle
    /\ req = Idle /\ listing = Idle /\ wikitext_call = Idle /\ scope = Idle
    /\ repo = Idle /\ slug_call = Idle /\ parse_call = Idle /\ item_tasks = Idle
    /\ gate = Idle /\ dead_letter = Idle
    /\ \E n \in 0..MaxRecords :
         \E with_filename \in {{}, {1}, {n}, 1..n} :
            save = [pc |-> "loop", processed_bosses |-> ProcessedBosses(n, with_filename),
                    i |-> 0, resolves |-> <<>>, upserts |-> <<>>]

NextSave ==
    \/ SaveBatch
    \/ SaveDone

SpecSave == InitSave /\ [][NextSave]_vars

\* C22: when the batch loop is over, the records went to upsert_batch in
\* consecutive batches of at most 50, each record exactly once, and each batch
\* holding a filename was preceded by one resolve_images call for it.
C22_EnrichThenUpsert ==
    save.pc \in {"done", "raised"} =>
        /\ Concat(save.upserts) = [k \in 1..Len(save.processed_bosses) |-> k]
        /\ \A b \in 1..Len(save.upserts) : Len(save.upserts[b]) <= 50
        /\ \A b \in 1..(Len(save.upserts) - 1) : Len(save.upserts[b]) = 50
        /\ Len(save.resolves) =
              Cardinality({b \in 1..Len(save.upserts) :
                             \E k \in 1..Len(save.upserts[b]) :
                                save.processed_bosses[save.upserts[b][k]].filename # 0})

(* ---------------------------------------------------------------------- *)
(* Resolution of one batch against its reply                               *)
(* ---------------------------------------------------------------------- *)
\* the title the reply sends f to: the destination of the redirect reported
\* from f, or f when the reply reports none
Destination(f, reply) ==
    IF \E r \in reply.redirects : r.from = f
      THEN (CHOOSE t \in {r.to : r \in {q \in reply.redirects : q.from = f}} : TRUE)
      ELSE f

\* C23: inside one answered batch every requested filename is mapped to the
\* url of the reply's page titled like its target (its redirect destination
\* when the reply reports a redirect from it, else itself) when that page
\* has an image-info entry with a url, and to the placeholder otherwise
\* (page missing, empty image info, no page with that title).
C23_RedirectAwareResolution ==
    \A k \in 1..Len(posts) :
        posts[k].outcome = "ok" =>
            \A f \in Range(posts[k].titles) :
                LET target == Destination(f, posts[k])
                    hits == {pg \in posts[k].pages :
                               /\ pg.title = target
                               /\ pg.imageinfo # <<>>
                               /\ pg.imageinfo[1] # NoUrl}
                IN /\ f \in DOMAIN all_results
                   /\ IF hits = {}
                        THEN all_results[f] = PLACEHOLDER_URL
                        ELSE \E pg \in hits : all_results[f] = pg.imageinfo[1]

C23_Witness ==
    /\ Len(posts) >= 1
    /\ posts[1].kind = "mixed"
    /\ \E f, g, h \in Range(posts[1].titles) :
          /\ all_results[f] = UrlOf(f)
          /\ all_results[g] = UrlOf(RedirectOf(g))
          /\ [from |-> h, to |-> RedirectOf(h)] \in posts[1].redirects
          /\ all_results[h] = PLACEHOLDER_URL

(* ---------------------------------------------------------------------- *)
(* Order of the upserts of a batch                                         *)
(* ---------------------------------------------------------------------- *)
\* for boss in bosses: await self.upsert(boss), every update going through
RECURSIVE UpsertAll(_, _, _)
UpsertAll(collection, next_id, records) ==
    IF records = <<>> THEN collection
    ELSE UpsertAll(FindOneAndUpdate(collection, next_id, Head(records)),
                   next_id + 1, Tail(records))

\* the stored documents without their generated _id
Stored(collection) ==
    {[name |-> d.name, hp |-> d.hp, slug |-> d.slug] : d \in collection}

\* the records of the calls i..j whose update went through, in call order
OkRecords(i, j) ==
    LET oks == SelectSeq(SubSeq(repo.history, i, j), LAMBDA c : c.ok)
    IN [k \in 1..Len(oks) |-> oks[k].boss]

Permuted(records, p) == [k \in 1..Len(records) |-> records[p[k]]]

\* records that share a slug are the same record
NoSlugClash(records) ==
    \A a, b \in 1..Len(records) :
        SlugKey(records[a]) = SlugKey(records[b]) => records[a] = records[b]

\* C24 as stated: for every run of upserts up to the last one made, the same
\* records upserted in any other order leave the same stored documents.
C24_OrderIrrelevant ==
    \A i \in 1..Len(repo.history) :
        LET records == OkRecords(i, Len(repo.history)) IN
        \A p \in Permutations(1..Len(records)) :
            Stored(UpsertAll(repo.history[i].before, repo.next_id, Permuted(records, p)))
                = Stored(repo.collection)

\* C24 amended: the order is irrelevant when no two different records of the
\* batch share a slug: the same records upserted in any other order, the same
\* updates going through, leave the same stored documents but for their _id.
C24_OrderIrrelevantUnlessSlugClash ==
    \A i \in 1..Len(repo.history) :
        LET records == OkRecords(i, Len(repo.history)) IN
        NoSlugClash(records) =>
            \A p \in Permutations(1..Len(records)) :
                Stored(UpsertAll(repo.history[i].before, repo.next_id,
                                 Permuted(records, p)))
                    = Stored(repo.collection)

C24_Witness ==
    /\ repo.pc = "batch" /\ repo.bosses = <<>> /\ repo.success_count = 2
    /\ Len(repo.history) = 3
    /\ \A k \in 1..3 : repo.history[k].ok
    /\ SlugKey(repo.history[1].boss) = SlugKey(repo.history[2].boss)
    /\ repo.history[1].boss.hp # repo.history[2].boss.hp
    /\ SlugKey(repo.history[3].boss) # SlugKey(repo.history[2].boss)
    /\ NoSlugClash(OkRecords(2, 3))
    /\ Cardinality(repo.collection) = 2

(* ---------------------------------------------------------------------- *)
(* run_scraper_job in a process that stops while it holds the lock         *)
(* ---------------------------------------------------------------------- *)
\* the process running invocation p stops between the acquire and the finally
ProcessStops(p) ==
    /\ p \in Runs /\ pc[p] \in RunningPcs
    /\ pc' = [pc EXCEPT ![p] = "crashed"]
    /\ UNCHANGED <<lockVars, acquired, acquired_at, effects, atReturn, listed, processed, batch_i, bosses>>
    /\ UNCHANGED notJobVars

\* the run_scraper_job invocations alone: main_scraper.main never touches
\* the system_jobs collection
NextCrash ==
    \/ \E p \in Runs : RunEnsure(p)
    \/ \E p \in Runs : RunAcquire(p)
    \/ \E p \in Runs : OpenClients(p)
    \/ \E p \in Runs : ListBosses(p)
    \/ \E p \in Runs : ProcessBosses(p)
    \/ \E p \in Runs : BatchStep(p)
    \/ \E p \in Runs : RunExcept(p)
    \/ \E p \in Runs : RunRelease(p)
    \/ \E p \in Runs : ProcessStops(p)

SpecCrash == Init /\ [][NextCrash]_vars

\* C25: the lock goes from running to idle only by a release call; once the
\* invocation holding it has stopped between acquire and release the lock
\* stays running, and every invocation whose acquire comes later ends
\* skipped: none is in the pipeline, and one that did acquire did so, and
\* returned, before the stopped one acquired.
C25_NoLockExpiry ==
    /\ [][(LockStatus(system_jobs) = "running" /\ LockStatus(system_jobs') = "idle")
             => (lastOp'.op = "release" /\ lastOp'.before = system_jobs
                   /\ pc[lastOp'.by] = "release" /\ pc'[lastOp'.by] = "done")]_vars
    /\ [](\A p \in Runs :
            pc[p] = "crashed" =>
                /\ LockStatus(system_jobs) = "running"
                /\ \E d \in LockDocs(system_jobs) : d.locked_at = acquired_at[p]
                /\ \A q \in Runs \ {p} :
                      \/ pc[q] \in {"start", "acquire"}
                      \/ pc[q] = "skipped" /\ ~acquired[q] /\ "list" \notin effects[q]
                      \/ /\ pc[q] = "done" /\ acquired[q]
                         /\ acquired_at[q] < acquired_at[p])

C25_Witness ==
    \E p, q \in Runs :
        /\ pc[p] = "crashed" /\ "upsert" \in effects[p]
        /\ pc[q] = "skipped" /\ atReturn[q] = "running"
        /\ lastOp.op = "acquire" /\ lastOp.by = q /\ lastOp.now > acquired_at[p]
        /\ LockStatus(system_jobs) = "running"

(* ---------------------------------------------------------------------- *)
(* DeadLetterLogger.log_parsing_error                                      *)
(* ---------------------------------------------------------------------- *)
MaxShortLen == 2      \* longest of the short raw inputs
MaxOver == 2          \* how far below and above the cap the long raw inputs go
MaxLogCalls == 2      \* log_parsing_error calls made on the logger

MAX_SNIPPET_LENGTH == 500

notDeadLetterVars == <<lockVars, jobVars, imgVars,
                       req, listing, wikitext_call, scope, repo, slug_call, parse_call,
                       item_tasks, gate, save>>

\* a str as the sequence of its characters
SnippetChars == <<"{", "|", "}">>
Text(n) == [i \in 1..n |-> SnippetChars[(i % 3) + 1]]
Ellipsis == <<".", ".", ".">>

\* raw_data: Optional[str]
NoRawData == [is_none |-> TRUE, text |-> <<>>]
RawData(text) == [is_none |-> FALSE, text |-> text]
RawInputs ==
    {NoRawData}
    \cup {RawData(Text(n)) : n \in 0..MaxShortLen}
    \cup {RawData(Text(n)) :
            n \in (MAX_SNIPPET_LENGTH - MaxOver)..(MAX_SNIPPET_LENGTH + MaxOver)}

\* raw_data or ""
RawOrEmpty(raw_data) == IF raw_data.is_none THEN <<>> ELSE raw_data.text

\* variant: the text is cut at the cap and no marker is added
TruncateSnippetNoMarker(text, max_length) ==
    IF text = <<>> THEN <<>>
    ELSE IF Len(text) <= max_length THEN text
    ELSE SubSeq(text, 1, max_length)

\* if not text: return ""; if len(text) <= max_length: return text;
\* return text[:max_length] + "..."
_truncate_snippet(text, max_length) ==
    IF text = <<>> THEN <<>>
    ELSE IF Len(text) <= max_length THEN text
    ELSE SubSeq(text, 1, max_length) \o Ellipsis

\* log_entry, as far as the boss name and the snippet go
LogEntry(boss_name, raw_data) ==
    [boss_name |-> boss_name,
     raw_data_snippet |-> _truncate_snippet(RawOrEmpty(raw_data), MAX_SNIPPET_LENGTH)]

LogCall(raw_data, written, file_before) ==
    [raw_data |-> raw_data, written |-> written, raised |-> FALSE,
     file_before |-> file_before]

\* log_parsing_error, the entry written: open(log_file, "a"), json.dump, "\n"
LogParsingError ==
    /\ dead_letter.pc = "ready"
    /\ Len(dead_letter.calls) < MaxLogCalls
    /\ \E raw_data \in RawInputs :
         dead_letter' =
           [dead_letter EXCEPT
              !.file = Append(@, LogEntry("Morgaroth", raw_data)),
              !.calls = Append(@, LogCall(raw_data, TRUE, dead_letter.file))]
    /\ UNCHANGED notDeadLetterVars

\* log_parsing_error, the write raising: except Exception as e: logger.error(...)
LogParsingErrorWriteFails ==
    /\ dead_letter.pc = "ready"
    /\ Len(dead_letter.calls) < MaxLogCalls
    /\ \E raw_data \in RawInputs :
         dead_letter' =
           [dead_letter EXCEPT
              !.calls = Append(@, LogCall(raw_data, FALSE, dead_letter.file))]
    /\ UNCHANGED notDeadLetterVars

InitDeadLetter ==
    /\ InitJob /\ InitImgIdle
    /\ req = Idle /\ listing = Idle /\ wikitext_call = Idle /\ scope = Idle
    /\ repo = Idle /\ slug_call = Idle /\ parse_call = Idle /\ item_tasks = Idle
    /\ gate = Idle /\ save = Idle
    /\ dead_letter = [pc |-> "ready", file |-> <<>>, calls |-> <<>>]

NextDeadLetter == LogParsingError \/ LogParsingErrorWriteFails

SpecDeadLetter == InitDeadLetter /\ [][NextDeadLetter]_vars

\* the log file each recorded call left behind
AfterLog(k) ==
    IF k = Len(dead_letter.calls) THEN dead_letter.file
    ELSE dead_letter.calls[k + 1].file_before

\* the snippet the raw input is to be stored as
ExpectedSnippet(raw_data) ==
    IF raw_data.is_none THEN <<>>
    ELSE IF Len(raw_data.text) <= 500 THEN raw_data.text
    ELSE [i \in 1..503 |-> IF i <= 500 THEN raw_data.text[i] ELSE "."]

\* C26 as stated: every log call appends exactly one entry, whose snippet is
\* the raw input up to 500 characters ("" for none) or its first 500
\* characters and "...", never longer than 503, and never raises.
C26_SnippetAndOneEntryPerCall ==
    \A k \in 1..Len(dead_letter.calls) :
        LET call == dead_letter.calls[k]
            after == AfterLog(k)
        IN /\ ~call.raised
           /\ Len(after) = Len(call.file_before) + 1
           /\ SubSeq(after, 1, Len(call.file_before)) = call.file_before
           /\ after[Len(after)].raw_data_snippet = ExpectedSnippet(call.raw_data)
           /\ Len(after[Len(after)].raw_data_snippet) <= 503

\* C26 amended: a log call whose write succeeds appends exactly one entry
\* with that snippet, a log call whose write fails appends none, and neither
\* raises; no stored snippet is longer than 503 characters.
C26_SnippetAndOneEntryPerWrite ==
    /\ \A k \in 1..Len(dead_letter.calls) :
          LET call == dead_letter.calls[k]
              after == AfterLog(k)
          IN /\ ~call.raised
             /\ IF call.written
                  THEN /\ Len(after) = Len(call.file_before) + 1
                       /\ SubSeq(after, 1, Len(call.file_before)) = call.file_before
                       /\ after[Len(after)].raw_data_snippet
                              = ExpectedSnippet(call.raw_data)
                  ELSE after = call.file_before
    /\ \A n \in 1..Len(dead_letter.file) :
          Len(dead_letter.file[n].raw_data_snippet) <= 503

C26_Witness ==
    /\ Len(dead_letter.calls) = 2
    /\ dead_letter.calls[1].written /\ Len(dead_letter.calls[1].raw_data.text) = 501
    /\ ~dead_letter.calls[2].written /\ Len(dead_letter.calls[2].raw_data.text) = 500
    /\ Len(dead_letter.file) = 1
    /\ Len(dead_letter.file[1].raw_data_snippet) = 503
    /\ SubSeq(dead_letter.file[1].raw_data_snippet, 501, 503) = Ellipsis

(* ---------------------------------------------------------------------- *)
(* The lock document under any sequence of ensure, acquire and release     *)
(* ---------------------------------------------------------------------- *)
LastRunOf(coll) == {d.last_run : d \in LockDocs(coll)}

\* C27: after any sequence of ensure, acquire and release the lock document
\* has status idle or running and locked_at set exactly when it is running;
\* ensure on an existing document and acquire leave last_run as it was.
C27_LockDocumentInvariant ==
    /\ Cardinality(LockDocs(system_jobs)) <= 1
    /\ \A d \in LockDocs(system_jobs) :
          /\ d.status \in {"idle", "running"}
          /\ (d.locked_at # None) <=> (d.status = "running")
    /\ (lastOp.op \in {"ensure", "acquire"} /\ LockDocs(lastOp.before) # {}) =>
          LastRunOf(system_jobs) = LastRunOf(lastOp.before)
    /\ (LockDocs(lastOp.before) # {}
           /\ LastRunOf(system_jobs) # LastRunOf(lastOp.before)) =>
          (lastOp.op = "release" /\ LastRunOf(system_jobs) = {lastOp.now})

C27_Witness ==
    /\ lastOp.op = "ensure" /\ lastOp.prev = "acquire"
    /\ lastOp.before = system_jobs
    /\ \E d \in LockDocs(system_jobs) :
          /\ d.status = "running"
          /\ d.last_run # None /\ d.locked_at > d.last_run

\* C28: while the lock document does not exist acquire returns false and
\* release has no effect, and neither creates it; the document comes into
\* existence by ensure only.
C28_AbsentDocument ==
    /\ (lastOp.op = "acquire" /\ LockDocs(lastOp.before) = {}) =>
          (~lastOp.ret /\ system_jobs = lastOp.before)
    /\ (lastOp.op = "release" /\ LockDocs(lastOp.before) = {}) =>
          system_jobs = lastOp.before
    /\ (LockDocs(system_jobs) # {} /\ LockDocs(lastOp.before) = {}) => lastOp.op = "ensure"

C28_Witness ==
    /\ lastOp.op = "release" /\ lastOp.prev = "acquire"
    /\ LockDocs(lastOp.before) = {} /\ LockDocs(system_jobs) = {}
    /\ clock >= 3

(* ---------------------------------------------------------------------- *)
(* A run whose listing fails                                               *)
(* ---------------------------------------------------------------------- *)
\* C29: a run whose listing raised uses no listing at all, makes no
\* per-item fetch, no image resolution and no upsert, so it writes nothing
\* to the stored bosses, goes through the except clause and the release,
\* and finds the lock idle when it returns.
C29_ListingFailureLeavesStore ==
    \A p \in Runs :
        "list_failed" \in effects[p] =>
            /\ listed[p] = 0 /\ processed[p] = 0 /\ batch_i[p] = 0
            /\ effects[p] \cap {"fetch", "resolve", "upsert"} = {}
            /\ pc[p] \in {"except", "release", "done"}
            /\ pc[p] = "done" =>
                  /\ {"except", "release"} \subseteq effects[p]
                  /\ atReturn[p] = "idle"

C29_Witness ==
    \E p, q \in Runs :
        /\ pc[q] = "done" /\ "upsert" \in effects[q] /\ acquired_at[q] < acquired_at[p]
        /\ pc[p] = "done" /\ "list_failed" \in effects[p] /\ atReturn[p] = "idle"
        /\ bosses # {}
        /\ ~acquired[MainProc] /\ pc[MainProc] = "start"

(* ---------------------------------------------------------------------- *)
(* The retry budget of the requests of one client                          *)
(* ---------------------------------------------------------------------- *)
\* the 429 responses a request has received
RateLimitsOf(r) ==
    Cardinality({k \in 1..Len(RepliesOf(r)) : RepliesOf(r)[k] = Response(429)})

\* the 429 responses the other requests of the client have received
RECURSIVE RateLimitsOfAll(_)
RateLimitsOfAll(rs) ==
    IF rs = {} THEN 0
    ELSE LET q == CHOOSE x \in rs : TRUE IN RateLimitsOf(q) + RateLimitsOfAll(rs \ {q})
RateLimitsOfOthers(r) == RateLimitsOfAll(Requests \ {r})

\* C30: every request on the client has its own budget: whatever the number
\* of 429 responses the other requests received, it counts its own attempts
\* from zero, a 429 on its first or second attempt is slept on (1 time unit
\* the first time) and retried, and only its own third 429 is raised.
C30_PerRequestBudget ==
    \A r \in Requests :
        LET replies == RepliesOf(r)
            sleeps == SleepsOf(r)
        IN /\ req[r].attempt = Len(sleeps)
           /\ req[r].attempt <= MAX_RETRIES - 1
           /\ Len(replies) <= MAX_RETRIES
           /\ sleeps # <<>> => sleeps[1] = INITIAL_BACKOFF
           /\ (replies # <<>> /\ replies[1] = Response(429)) =>
                 \/ req[r].pc = "sleeping" /\ req[r].wait_time = INITIAL_BACKOFF
                 \/ sleeps # <<>> /\ sleeps[1] = INITIAL_BACKOFF
           /\ (req[r].pc = "raised" /\ replies[Len(replies)] = Response(429)) =>
                 RateLimitsOf(r) = MAX_RETRIES
           /\ RateLimitsOf(r) <= MAX_RETRIES

C30_Witness ==
    \E r, q \in Requests :
        /\ r # q
        /\ req[r].pc = "raised" /\ RateLimitsOf(r) = 3
        /\ RateLimitsOfOthers(q) >= 3
        /\ req[q].pc = "returned"
        /\ RepliesOf(q) = <<Response(429), Response(429), Response(200)>>
        /\ SleepsOf(q) = <<1, 2>>
        /\ RateLimitsOf(r) + RateLimitsOf(q) > MAX_RETRIES

====
